---- MODULE Spec2Model ----
(***************************************************************************)
(* A model of the CEEMS exporter and API server:                           *)
(*   - the IPMI DCMI power collector (impiCollector),                      *)
(*   - the units endpoints of the API server (CEEMSServer),                *)
(*   - the perf collector (perfCollector).                                 *)
(* Each subsystem has its own specification over its own variables; the    *)
(* variables of the other subsystems stay unchanged.                       *)
(***************************************************************************)
EXTENDS Integers, Sequences, FiniteSets, TLC

\* ------------------------------------------------------------------------
\* Bounds
\* ------------------------------------------------------------------------
\* Largest power reading (in watts) the IPMI tool reports.
MaxWatts == 2

\* ------------------------------------------------------------------------
\* IPMI DCMI collector
\* ------------------------------------------------------------------------
VARIABLES
    ipmiPc,        \* "new" before NewIPMICollector ran, "ready" after
    cmdIsSudo,     \* cmdSlice[0] == "sudo" for the configured ipmiDcmiCmd
    execMode,      \* impiCollector.execMode
    cachedMetric,  \* impiCollector.cachedMetric: rType -> watts
    ipmiCh,        \* samples sent on ch by the last Update: rType -> watts
    ipmiTried,     \* the exec variants NewIPMICollector attempted, in order
    ipmiStartOk,   \* outcome of each attempted exec variant at startup
    ipmiUsed,      \* the exec variant the last Update ran ("" when none)
    ipmiLast,      \* what the last Update got: "none" (no Update yet),
                   \* "execerr", or the Power Measurement line of the output
    lastReadings   \* the readings the last Update parsed, when it got any

ipmiVars == <<ipmiPc, cmdIsSudo, execMode, cachedMetric, ipmiCh, ipmiTried,
              ipmiStartOk, ipmiUsed, ipmiLast, lastReadings>>

\* The units endpoints of the API server.
VARIABLES
    httpPc,          \* "new" before NewCEEMSServer ran, "idle" while the
                     \* server waits, "responded" once a handler answered
    maxQueryPeriod,  \* CEEMSServer.maxQueryPeriod in hours (0: no limit)
    dbUnits,         \* the units table behind CEEMSServer.db
    httpReq,         \* the request the handler answered
    httpResp,        \* the response the handler wrote
    httpQueried      \* whether the handler called s.Querier

httpVars == <<httpPc, maxQueryPeriod, dbUnits, httpReq, httpResp,
              httpQueried>>

\* The perf collector and the node it runs on.
VARIABLES
    perfPc,                   \* "new", "ready" (between scrapes), "scraping"
                              \* (inside Update), "stopped"
    opts,                     \* perfCollector.opts: the enabled kinds, and
                              \* whether targetEnvVars is non-empty
    envFaults,                \* whether system calls may fail on this node
    envTicks,                 \* whether the kernel counters move
    procStatus,               \* per PID: "none", "running", "exited"
    kern,                     \* per kind and PID: the kernel counters of
                              \* the PID's profiler at its last read
    perfHwProfilers,          \* the PIDs in perfCollector.perfHwProfilers
    perfSwProfilers,          \* the PIDs in perfCollector.perfSwProfilers
    perfCacheProfilers,       \* the PIDs in perfCollector.perfCacheProfilers
    perfClosed,               \* per kind: the PIDs whose profiler the last
                              \* closeProfilers stopped and closed
    scrapeFaults,             \* the calls of the last Update / Stop that
                              \* failed
    lastRawHwCounters,        \* PID -> last raw hardware counter read
    lastScaledHwCounters,     \* PID -> last scaled hardware counter
    lastRawCacheCounters,     \* PID -> last raw cache counter read
    lastScaledCacheCounters,  \* PID -> last scaled cache counter
    perfCh,                   \* per uuid and kind: the sample sent on ch at
                              \* the latest update of the uuid (0: none)
    scrapeCgroups,            \* the cgroups of the Update in progress
    gor,                      \* per cgroup of the Update in progress: the
                              \* next step of its goroutine
    contribSum,               \* per PID: the sum of the contributions
                              \* scaleCounter returned for its hardware reads
    perfOpened,               \* per kind: the PIDs whose profiler the last
                              \* Update opened
    aggSnapshotPIDs,          \* per kind: the PIDs with a snapshot entry
                              \* when the counters were last aggregated
    scrapes                   \* the number of calls of Update so far

perfEnv == <<envFaults, envTicks>>
perfTables == <<perfHwProfilers, perfSwProfilers, perfCacheProfilers>>
perfSnapshots == <<lastRawHwCounters, lastScaledHwCounters,
                   lastRawCacheCounters, lastScaledCacheCounters>>
perfGhost == <<perfClosed, perfOpened, scrapeFaults, contribSum,
               aggSnapshotPIDs>>
perfVars == <<perfPc, opts, perfEnv, procStatus, kern, perfTables,
              perfSnapshots, perfGhost, perfCh, scrapeCgroups, gor, scrapes>>

\* cgroupProcFilterer applied to cgroups of its own.
VARIABLES
    filterPc,   \* "call" before filterPerfProcs ran, "done" after
    filterIn,   \* its arguments: cgroups, targetEnvVars, procFilter
    filterOut   \* the cgroups it returned, and the PIDs openProfilers then
                \* opened a profiler for

filterVars == <<filterPc, filterIn, filterOut>>

\* SanitizeMetricName applied to a metric name, and to its result.
VARIABLES
    sanPc,      \* the number of calls so far: "none", "once", "twice"
    metricName, \* the argument of the first call
    sanitized,  \* the result of the first call
    resanitized \* the result of the second call

sanVars == <<sanPc, metricName, sanitized, resanitized>>

\* The units table of the API server's database and the upsert statement.
VARIABLES
    unitsRows,    \* the rows of the units table, in insertion order
    upsertParams, \* the named parameters of the last execution
    upsertCount   \* the number of executions so far

upsertVars == <<unitsRows, upsertParams, upsertCount>>

\* A backend of the load balancer and its retention cache.
VARIABLES
    retentionPeriod, \* the cached retention period, in hours
    tsdbStatus,      \* what the status endpoint answered to the last refresh
    lastParsed,      \* the duration the last successful refresh parsed
    refreshes        \* the number of refreshes so far

backendVars == <<retentionPeriod, tsdbStatus, lastParsed, refreshes>>

\* Tasks that use one perf collector at the same time.
VARIABLES
    taskPc,          \* per task: the call of the collector it is executing
    taskPIDs,        \* per task: the PIDs of the cgroups it was given
    sharedProfilers  \* the PIDs in the profiler table of the collector

lockVars == <<taskPc, taskPIDs, sharedProfilers>>

\* A call of lookupCgroupRoots.
VARIABLES
    rootsPc,         \* "call" before the call, "done" after it
    rootsIn,         \* the directory tree, rootDir and name of the call
    rootsOut         \* what the call returned

rootsVars == <<rootsPc, rootsIn, rootsOut>>

\* The profiler types NewPerfCollector configures.
VARIABLES
    typesPc,         \* "call" before NewPerfCollector, "done" after it
    typesIn,         \* the kind, its enabling flag and its list of names
    typesOut         \* the profiler types of that kind

typesVars == <<typesPc, typesIn, typesOut>>

\* The goroutines that Update starts, one for each cgroup.
VARIABLES
    goPc,            \* per goroutine: the statement it is executing
    lastCounters     \* per kind: the PIDs that have a snapshot entry

raceVars == <<goPc, lastCounters>>

\* The parts that are checked in specifications of their own.
extraVars == <<lockVars, rootsVars, typesVars, raceVars>>

\* The functions that are checked on their own.
funVars == <<filterVars, sanVars, upsertVars, backendVars, extraVars>>

oldVars == <<ipmiVars, httpVars, perfVars, filterVars, sanVars, upsertVars,
             backendVars>>
notLock == <<oldVars, rootsVars, typesVars, raceVars>>
notRoots == <<oldVars, lockVars, typesVars, raceVars>>
notTypes == <<oldVars, lockVars, rootsVars, raceVars>>
notRace == <<oldVars, lockVars, rootsVars, typesVars>>

vars == <<ipmiVars, httpVars, perfVars, funVars>>

\* What the actions of one subsystem leave alone: the other subsystems.
notIpmi == <<httpVars, perfVars, funVars>>
notHttp == <<ipmiVars, perfVars, funVars>>
notPerf == <<ipmiVars, httpVars, funVars>>
notFilter == <<ipmiVars, httpVars, perfVars, sanVars, upsertVars,
               backendVars, extraVars>>
notSan == <<ipmiVars, httpVars, perfVars, filterVars, upsertVars,
            backendVars, extraVars>>
notUpsert == <<ipmiVars, httpVars, perfVars, filterVars, sanVars,
               backendVars, extraVars>>

\* Keys of ipmiDCMIPowerReadingRegexMap.
RTypes == {"current", "min", "max"}

Range(f) == {f[i] : i \in DOMAIN f}

\* A map with no key.
EmptyMap == [t \in {} |-> 0]

\* One reading line of the tool output: the line is missing, it matches the
\* regex but its value does not parse as a float, or it carries a number.
ReadingLines ==
    {[st |-> "missing", v |-> 0], [st |-> "bad", v |-> 0]}
        \cup {[st |-> "num", v |-> n] : n \in 0..MaxWatts}

\* The `Power Measurement` line: missing (or with another value), Active or
\* Not Available.
PMLines == {"missing", "Active", "Not Available"}

\* The outputs of the tool. The reading lines vary freely under an Active
\* measurement; under another measurement line they are all absent or all
\* carry the same number (they are not read then).
IpmiOutputs ==
    [pm : {"Active"}, current : ReadingLines, min : ReadingLines, max : ReadingLines]
        \cup {[pm |-> p, current |-> l, min |-> l, max |-> l] :
                  p \in PMLines \ {"Active"},
                  l \in {[st |-> "missing", v |-> 0], [st |-> "num", v |-> MaxWatts]}}

NoOutput == [pm |-> "missing", current |-> [st |-> "missing", v |-> 0],
             min |-> [st |-> "missing", v |-> 0], max |-> [st |-> "missing", v |-> 0]]

\* getValue on the Power Measurement regex: the captured value, or an error.
getValuePM(ipmiOutput) ==
    IF ipmiOutput.pm = "missing"
    THEN [err |-> TRUE, value |-> ""]
    ELSE [err |-> FALSE, value |-> ipmiOutput.pm]

\* getValue on a reading regex followed by strconv.ParseFloat: err is set
\* when no line matches or when the captured text is not a float.
getValue(ipmiOutput, rType) ==
    IF ipmiOutput[rType].st = "num"
    THEN [err |-> FALSE, value |-> ipmiOutput[rType].v]
    ELSE [err |-> TRUE, value |-> 0]

\* Mutant of parseIPMIOutput: any missing or unparsable reading is an error.
parseIPMIOutputStrict(stdOut) ==
    LET pm == getValuePM(stdOut) IN
    IF pm.err THEN [err |-> TRUE, readings |-> EmptyMap]
    ELSE IF pm.value = "Active" /\ \A t \in RTypes : ~getValue(stdOut, t).err
         THEN [err |-> FALSE,
               readings |-> [t \in RTypes |-> getValue(stdOut, t).value]]
         ELSE [err |-> TRUE, readings |-> EmptyMap]

\* parseIPMIOutput: the readings that parse when the measurement is Active,
\* an error when the measurement line is missing or not Active.
parseIPMIOutput(stdOut) ==
    LET pm == getValuePM(stdOut) IN
    IF pm.err THEN [err |-> TRUE, readings |-> EmptyMap]
    ELSE IF pm.value = "Active"
         THEN [err |-> FALSE,
               readings |-> [t \in {r \in RTypes : ~getValue(stdOut, r).err}
                                |-> getValue(stdOut, t).value]]
         ELSE [err |-> TRUE, readings |-> EmptyMap]

\* Mutant of executeIPMICmd: falls back to exec as root when no mode is set.
executeIPMICmdRetry(mode, osErr, osOut) ==
    IF mode = ""
    THEN [err |-> osErr, stdOut |-> IF osErr THEN NoOutput ELSE osOut, used |-> "cap"]
    ELSE [err |-> osErr, stdOut |-> IF osErr THEN NoOutput ELSE osOut, used |-> mode]

\* executeIPMICmd: runs the tool in the frozen mode; no mode is an error.
\* osErr and osOut are what the osexec call returns.
executeIPMICmd(mode, osErr, osOut) ==
    IF mode \in {"cap", "sudo", "native"}
    THEN [err |-> osErr, stdOut |-> IF osErr THEN NoOutput ELSE osOut, used |-> mode]
    ELSE [err |-> TRUE, stdOut |-> NoOutput, used |-> ""]

\* getPowerReadings: execute, then parse; either error is returned.
getPowerReadings(mode, osErr, osOut) ==
    LET ex == executeIPMICmd(mode, osErr, osOut) IN
    IF ex.err
    THEN [err |-> TRUE, readings |-> EmptyMap, ex |-> ex]
    ELSE LET p == parseIPMIOutput(ex.stdOut) IN
         [err |-> p.err, readings |-> p.readings, ex |-> ex]

\* Mutant of powerReadingsOf: an error yields no readings at all.
powerReadingsNoCache(err, readings, cache) ==
    IF err THEN EmptyMap ELSE readings

\* Update, lines 143-150: the cached readings replace the result on error.
powerReadingsOf(err, readings, cache) ==
    IF err THEN cache ELSE readings

\* Mutant of cacheAfter: the cache is never refreshed.
cacheAfterStale(cache, powerReadings) ==
    cache

\* Update, lines 153-158: every positive reading is stored in the cache.
cacheAfter(cache, powerReadings) ==
    LET pos == {t \in DOMAIN powerReadings : powerReadings[t] > 0} IN
    [t \in (DOMAIN cache) \cup pos |->
        IF t \in pos THEN powerReadings[t] ELSE cache[t]]

\* Update, lines 153-158: every positive reading is sent on ch.
samplesOf(powerReadings) ==
    [t \in {r \in DOMAIN powerReadings : powerReadings[r] > 0} |-> powerReadings[t]]

\* Mutant of startupExecMode: exec as root is preferred over sudo.
startupExecModeCapFirst(isSudo, ok) ==
    IF ok["native"] THEN [mode |-> "native", tried |-> <<"native">>]
    ELSE IF ok["cap"] THEN [mode |-> "cap", tried |-> <<"native", "cap">>]
    ELSE IF ~isSudo /\ ok["sudo"] THEN [mode |-> "sudo", tried |-> <<"native", "cap", "sudo">>]
    ELSE [mode |-> "", tried |-> IF isSudo THEN <<"native", "cap">> ELSE <<"native", "cap", "sudo">>]

\* NewIPMICollector, lines 86-110: the fallback chain. ok[m] is the outcome
\* the osexec call of variant m has when it is made.
startupExecMode(isSudo, ok) ==
    IF ok["native"] THEN [mode |-> "native", tried |-> <<"native">>]
    ELSE IF ~isSudo /\ ok["sudo"] THEN [mode |-> "sudo", tried |-> <<"native", "sudo">>]
    ELSE LET t == IF isSudo THEN <<"native", "cap">> ELSE <<"native", "sudo", "cap">> IN
         IF ok["cap"] THEN [mode |-> "cap", tried |-> t]
         ELSE [mode |-> "", tried |-> t]

ExecModes == {"native", "sudo", "cap"}

IpmiInit ==
    /\ ipmiPc = "new"
    /\ cmdIsSudo = FALSE
    /\ execMode = ""
    /\ cachedMetric = EmptyMap
    /\ ipmiCh = EmptyMap
    /\ ipmiTried = <<>>
    /\ ipmiStartOk = [m \in ExecModes |-> FALSE]
    /\ ipmiUsed = ""
    /\ ipmiLast = "none"
    /\ lastReadings = EmptyMap

NewIPMICollector ==
    /\ ipmiPc = "new"
    /\ \E isSudo \in BOOLEAN, ok \in [ExecModes -> BOOLEAN] :
          LET s == startupExecMode(isSudo, ok) IN
          /\ cmdIsSudo' = isSudo
          /\ execMode' = s.mode
          /\ ipmiTried' = s.tried
          /\ ipmiStartOk' = [m \in ExecModes |-> ok[m] /\ m \in Range(s.tried)]
    /\ ipmiPc' = "ready"
    /\ cachedMetric' = EmptyMap
    /\ UNCHANGED <<ipmiCh, ipmiUsed, ipmiLast, lastReadings, notIpmi>>

\* What the osexec call of a scrape returns: an error, or the tool output.
OsResults ==
    {[err |-> TRUE, out |-> NoOutput]} \cup {[err |-> FALSE, out |-> o] : o \in IpmiOutputs}

\* impiCollector.Update. os is the outcome of the osexec call.
IpmiUpdate ==
    /\ ipmiPc = "ready"
    /\ \E os \in OsResults :
          LET r == getPowerReadings(execMode, os.err, os.out)
              powerReadings == powerReadingsOf(r.err, r.readings, cachedMetric)
          IN
          /\ ipmiCh' = samplesOf(powerReadings)
          /\ cachedMetric' = cacheAfter(cachedMetric, powerReadings)
          /\ ipmiUsed' = r.ex.used
          /\ ipmiLast' = IF r.ex.err THEN "execerr" ELSE r.ex.stdOut.pm
          /\ lastReadings' = IF r.ex.err \/ r.ex.stdOut.pm # "Active"
                             THEN EmptyMap
                             ELSE [t \in {k \in RTypes : r.ex.stdOut[k].st = "num"}
                                      |-> r.ex.stdOut[t].v]
    /\ UNCHANGED <<ipmiPc, cmdIsSudo, execMode, ipmiTried, ipmiStartOk, notIpmi>>

IpmiNext == NewIPMICollector \/ IpmiUpdate

\* ------------------------------------------------------------------------
\* IPMI DCMI collector: properties
\* ------------------------------------------------------------------------
\* The positive entries of a map of readings.
Positive(m) == [t \in {k \in DOMAIN m : m[k] > 0} |-> m[t]]

\* Map a with the entries of b written over it.
Override(a, b) ==
    [t \in (DOMAIN a) \cup (DOMAIN b) |-> IF t \in DOMAIN b THEN b[t] ELSE a[t]]

\* The last Update got no readings: the command failed, or the Power
\* Measurement line was missing or Not Available.
IpmiFailed == ipmiLast \in {"execerr", "missing", "Not Available"}

\* The last Update got an Active output with a reading line missing or
\* unparsable.
IpmiPartial == ipmiLast = "Active" /\ DOMAIN lastReadings # RTypes

\* C7 as stated: an Update that reads `Power Measurement : Not Available`
\* emits no sample and leaves the cache unchanged, whatever the cache held.
C7_NotAvailableEmitsNothing ==
    [][(ipmiPc = "ready" /\ ipmiLast' = "Not Available")
          => (ipmiCh' = EmptyMap /\ cachedMetric' = cachedMetric)]_vars

\* C7 amended: an Update that reads `Power Measurement : Not Available`
\* emits exactly the readings cached before the scrape (no sample only when
\* the cache is empty) and leaves the cache unchanged.
C7_NotAvailableServesCache ==
    [][(ipmiPc = "ready" /\ ipmiLast' = "Not Available")
          => (ipmiCh' = cachedMetric /\ cachedMetric' = cachedMetric)]_vars

\* C7 witness: a Not Available scrape that emitted the cached readings.
C7_Witness ==
    /\ ipmiLast = "Not Available"
    /\ ipmiCh # EmptyMap
    /\ ipmiCh = cachedMetric

\* C8 as stated: when the output lacks the Power Measurement line, or is
\* Active with a reading line missing or unparsable, Update emits no freshly
\* parsed sample and serves the previously cached readings.
C8_MalformedServesCache ==
    [][(ipmiPc = "ready" /\ (ipmiLast' = "missing" \/ IpmiPartial'))
          => (ipmiCh' = cachedMetric /\ cachedMetric' = cachedMetric)]_vars

\* C8 amended: when the Power Measurement line is missing Update serves the
\* previously cached readings; when the output is Active with reading lines
\* missing or unparsable, Update emits the positive readings of the lines
\* that parse, stores them in the cache, and emits nothing for the others.
C8_PartialEmitsParsed ==
    [][ipmiPc = "ready"
          => /\ ipmiLast' = "missing"
                  => (ipmiCh' = cachedMetric /\ cachedMetric' = cachedMetric)
             /\ IpmiPartial'
                  => /\ ipmiCh' = Positive(lastReadings')
                     /\ cachedMetric' = Override(cachedMetric, Positive(lastReadings'))]_vars

\* C8 witness: an Active scrape with a reading line missing emitted a fresh
\* reading while the cache holds a metric it did not emit.
C8_Witness ==
    /\ IpmiPartial
    /\ ipmiCh # EmptyMap
    /\ \E t \in DOMAIN cachedMetric : t \notin DOMAIN ipmiCh

\* C9 as stated: a failed scrape emits exactly the (positive) readings of the
\* most recent successful scrape; here for a failed scrape that directly
\* follows a successful one.
C9_FailedEmitsLastSuccess ==
    [][(ipmiPc = "ready" /\ ipmiLast = "Active" /\ IpmiFailed')
          => ipmiCh' = Positive(lastReadings)]_vars

\* C9 amended: a successful scrape refreshes the cache entry of every metric
\* whose line parsed to a positive reading and keeps the other entries; every
\* failed scrape emits exactly the cache, that is, for each metric the most
\* recent positive reading of a successful scrape, and leaves it unchanged.
C9_CacheIsLastPositive ==
    [][ipmiPc = "ready"
          => /\ ipmiLast' = "Active"
                  => cachedMetric' = Override(cachedMetric, Positive(lastReadings'))
             /\ IpmiFailed'
                  => (ipmiCh' = cachedMetric /\ cachedMetric' = cachedMetric)]_vars

\* C9 witness: a scrape whose command failed, with a mode set, served all
\* three cached readings.
C9_Witness ==
    /\ ipmiLast = "execerr"
    /\ execMode # ""
    /\ DOMAIN ipmiCh = RTypes
    /\ ipmiCh = cachedMetric

\* The exec variants tried at startup are a prefix of `order`, every one but
\* the last failed, and execMode is the last one if it succeeded, else none
\* after the whole of `order` was tried.
StartupFollows(order) ==
    /\ \E n \in 1..Len(order) : ipmiTried = SubSeq(order, 1, n)
    /\ \A i \in 1..(Len(ipmiTried) - 1) : ~ipmiStartOk[ipmiTried[i]]
    /\ IF ipmiStartOk[ipmiTried[Len(ipmiTried)]]
       THEN execMode = ipmiTried[Len(ipmiTried)]
       ELSE execMode = "" /\ ipmiTried = order

\* Every scrape runs the tool in the mode fixed at startup, which never
\* changes; with no mode every scrape emits nothing and caches nothing.
ExecModeFrozen ==
    /\ ipmiPc = "ready" => (execMode' = execMode /\ ipmiUsed' = execMode)
    /\ (ipmiPc' = "ready" /\ execMode' = "")
          => (ipmiCh' = EmptyMap /\ cachedMetric' = EmptyMap)

\* C10 as stated: NewIPMICollector tries direct exec, sudo-wrapped exec and
\* exec as root in that order and fixes execMode to the first that succeeds
\* or to none; later scrapes use that mode only; with no mode nothing is
\* emitted.
C10_ThreeStepChain ==
    [][(ipmiPc' = "ready" => StartupFollows(<<"native", "sudo", "cap">>)')
          /\ ExecModeFrozen]_vars

\* C10 amended: as stated, except that the sudo-wrapped attempt is made only
\* when the configured command does not itself start with sudo.
C10_FallbackChain ==
    [][(ipmiPc' = "ready"
          => StartupFollows(IF cmdIsSudo THEN <<"native", "cap">>
                            ELSE <<"native", "sudo", "cap">>)')
          /\ ExecModeFrozen]_vars

\* C10 witness: all three variants failed at startup and a later scrape ran
\* with no mode.
C10_Witness ==
    /\ ipmiPc = "ready"
    /\ ipmiTried = <<"native", "sudo", "cap">>
    /\ execMode = ""
    /\ ipmiLast = "execerr"
    /\ ipmiUsed = ""

\* ------------------------------------------------------------------------
\* API server: units endpoints (CEEMSServer)
\* ------------------------------------------------------------------------
\* Times are in hours.  time.Now() at the moment a request is answered.
Now == 100
\* defaultQueryWindow
DefaultQueryWindow == 24
\* The non-zero Config.MaxQueryPeriod the server may be started with.
MaxQueryPeriodCfg == 48

\* Values of the X-Grafana-User / X-Dashboard-User headers and of `usr`.
Users == {"usr1", "usr2", "usr3"}
\* from / to timestamps a request may carry.
TimeStamps == {20, 80}

\* The rows of the units table (base.UnitsDBTableName).  ended_at_ts is 0
\* for a running unit.
UnitsTable ==
    <<[uuid |-> "u1", usr |-> "usr1", project |-> "prj1", ignore |-> 0,
       ended_at_ts |-> 90, ended_at |-> 90],
      [uuid |-> "u2", usr |-> "usr2", project |-> "prj2", ignore |-> 0,
       ended_at_ts |-> 0, ended_at |-> 95],
      [uuid |-> "u3", usr |-> "usr2", project |-> "prj1", ignore |-> 0,
       ended_at_ts |-> 10, ended_at |-> 10],
      [uuid |-> "u4", usr |-> "usr2", project |-> "prj2", ignore |-> 1,
       ended_at_ts |-> 0, ended_at |-> 95],
      [uuid |-> "u5", usr |-> "usr1", project |-> "prj1", ignore |-> 1,
       ended_at_ts |-> 85, ended_at |-> 85]>>

\* A from / to query parameter: absent, present with an empty value,
\* present with a value strconv.Atoi rejects, or an integer timestamp.
TimeParams ==
    {[kind |-> "absent", v |-> 0], [kind |-> "empty", v |-> 0],
     [kind |-> "malformed", v |-> 0]}
        \cup {[kind |-> "int", v |-> t] : t \in TimeStamps}

\* r.URL.Query().Get(key) = "": the parameter is absent or empty.
GetIsEmpty(param) == param.kind \in {"absent", "empty"}

\* base.UnitsDBTableColNames, as far as the model has columns.
UnitsDBTableColNames ==
    {"uuid", "usr", "project", "ignore", "ended_at_ts", "ended_at"}

NoRequest ==
    [endpoint |-> "none", logged |-> "", dashboard |-> "", user |-> {},
     project |-> {}, running |-> FALSE, uuid |-> {},
     from |-> [kind |-> "absent", v |-> 0],
     to |-> [kind |-> "absent", v |-> 0], field |-> {}]

NoResponse ==
    [code |-> 0, status |-> "", errorType |-> "", error |-> "",
     data |-> {}, fields |-> {}, owner |-> FALSE]

\* The query strings of the units endpoints.
UnitsQueries ==
    [project : {{}, {"prj1"}, {"prj2"}},
     running : BOOLEAN,
     uuid : {{}, {"u1"}, {"u2"}, {"u2", "u4"}},
     from : TimeParams,
     to : TimeParams,
     field : {{}, {"uuid"}, {"bogus"}}]

\* getUser: the two identity headers of the request.
getUser(r) == <<r.logged, r.dashboard>>

\* errorResponse: the status code each error type is answered with, and
\* the error body.
errorResponse(errorType, err) ==
    [code |-> CASE errorType = "bad_data" -> 400
                [] errorType = "forbidden" -> 403
                [] OTHER -> 500,
     status |-> "error", errorType |-> errorType, error |-> err,
     data |-> {}, fields |-> {}, owner |-> FALSE]

\* q.query(" <op> <col> IN ") followed by q.param(vals).
InClause(op, col, vals) ==
    [op |-> op, kind |-> "in", col |-> col, vals |-> vals, lo |-> 0, hi |-> 0]

\* The text value a row has in a column that an IN list is compared with.
ColText(row, col) ==
    CASE col = "usr" -> row.usr
      [] col = "project" -> row.project
      [] col = "uuid" -> row.uuid
      [] col = "ended_at_ts" -> ToString(row.ended_at_ts)

\* Whether a row satisfies one predicate of the WHERE clause.
ClauseHolds(c, row) ==
    CASE c.kind = "ignore0" -> row.ignore = 0
      [] c.kind = "in" -> ColText(row, c.col) \in c.vals
      [] c.kind = "between" -> c.lo <= row.ended_at /\ row.ended_at <= c.hi

\* The WHERE clause as SQL evaluates it: AND binds tighter than OR, so the
\* clause is the disjunction of its AND-groups.
RECURSIVE EvalWhere(_, _, _, _)
EvalWhere(clauses, row, accOr, accAnd) ==
    IF clauses = <<>> THEN accOr \/ accAnd
    ELSE LET c == Head(clauses)
         IN  IF c.op = "OR"
             THEN EvalWhere(Tail(clauses), row, accOr \/ accAnd,
                            ClauseHolds(c, row))
             ELSE EvalWhere(Tail(clauses), row, accOr,
                            accAnd /\ ClauseHolds(c, row))

\* s.Querier: run the SELECT against the table.  It fails when the database
\* fails or when the statement has no column to select.
Querier(db, fields, where, dbErr) ==
    IF dbErr THEN [err |-> "database error", rows |-> {}]
    ELSE IF fields = {} THEN [err |-> "SQL syntax error", rows |-> {}]
    ELSE [err |-> "",
          rows |-> {i \in DOMAIN db : EvalWhere(where, db[i], FALSE, TRUE)}]

\* getCommonQueryParams: the project and running parameters.
getCommonQueryParams(q, URLValues) ==
    LET q1 == IF URLValues.project # {}
              THEN Append(q, InClause("AND", "project", URLValues.project))
              ELSE q
    IN  IF URLValues.running
        THEN Append(q1, InClause("OR", "ended_at_ts", {"0"}))
        ELSE q1

\* getQueriedFields: the valid ones of the queried fields, or every column
\* when no field is queried.
getQueriedFields(URLValues, validFieldNames) ==
    IF URLValues.field # {} THEN URLValues.field \cap validFieldNames
    ELSE validFieldNames

\* getQueryWindow with a `to` that is not parsed: any value that is not an
\* integer stands for the current time.
getQueryWindowLenientTo(r, maxQ) ==
    IF r.from.kind = "malformed"
    THEN [err |-> "malformed 'from' timestamp", from |-> 0, to |-> 0]
    ELSE LET fromTime == IF GetIsEmpty(r.from)
                         THEN Now - DefaultQueryWindow ELSE r.from.v
             toTime == IF r.to.kind # "int" THEN Now ELSE r.to.v
         IN  IF maxQ > 0 /\ toTime - fromTime > maxQ
             THEN [err |-> "maximum query window exceeded",
                   from |-> 0, to |-> 0]
             ELSE [err |-> "", from |-> fromTime, to |-> toTime]

\* getQueryWindow without the check of the maximum query period.
getQueryWindowNoLimit(r, maxQ) ==
    IF r.from.kind = "malformed"
    THEN [err |-> "malformed 'from' timestamp", from |-> 0, to |-> 0]
    ELSE IF r.to.kind = "malformed"
    THEN [err |-> "malformed 'to' timestamp", from |-> 0, to |-> 0]
    ELSE [err |-> "",
          from |-> IF GetIsEmpty(r.from)
                   THEN Now - DefaultQueryWindow ELSE r.from.v,
          to |-> IF GetIsEmpty(r.to) THEN Now ELSE r.to.v]

\* getQueryWindow: the from / to of the query, or an error.
getQueryWindow(r, maxQ) ==
    IF r.from.kind = "malformed"
    THEN [err |-> "malformed 'from' timestamp", from |-> 0, to |-> 0]
    ELSE IF r.to.kind = "malformed"
    THEN [err |-> "malformed 'to' timestamp", from |-> 0, to |-> 0]
    ELSE LET fromTime == IF GetIsEmpty(r.from)
                         THEN Now - DefaultQueryWindow ELSE r.from.v
             toTime == IF GetIsEmpty(r.to) THEN Now ELSE r.to.v
         IN  IF maxQ > 0 /\ toTime - fromTime > maxQ
             THEN [err |-> "maximum query window exceeded",
                   from |-> 0, to |-> 0]
             ELSE [err |-> "", from |-> fromTime, to |-> toTime]

\* unitsQuerier: build the SELECT for the queried users and answer with its
\* rows.  resp is the response written, queried whether s.Querier was
\* called.
unitsQuerier(queriedUsers, r, db, maxQ, dbErr) ==
    LET queriedFields == getQueriedFields(r, UnitsDBTableColNames)
        q0 == <<[op |-> "WHERE", kind |-> "ignore0", col |-> "ignore",
                 vals |-> {}, lo |-> 0, hi |-> 0]>>
        q1 == IF queriedUsers # {}
              THEN Append(q0, InClause("AND", "usr", queriedUsers))
              ELSE q0
        q2 == getCommonQueryParams(q1, r)
        checkQueryWindow == r.uuid = {}
        q3 == IF r.uuid # {}
              THEN Append(q2, InClause("AND", "uuid", r.uuid))
              ELSE q2
        queryWindowTS == getQueryWindow(r, maxQ)
        q4 == IF checkQueryWindow
              THEN Append(q3, [op |-> "AND", kind |-> "between",
                               col |-> "ended_at", vals |-> {},
                               lo |-> queryWindowTS.from,
                               hi |-> queryWindowTS.to])
              ELSE q3
        res == Querier(db, queriedFields, q4, dbErr)
    IN  IF checkQueryWindow /\ queryWindowTS.err # ""
        THEN [resp |-> errorResponse("bad_data", queryWindowTS.err),
              queried |-> FALSE]
        ELSE IF res.err # ""
        THEN [resp |-> errorResponse("internal", res.err), queried |-> TRUE]
        ELSE [resp |-> [code |-> 200, status |-> "success",
                        errorType |-> "", error |-> "", data |-> res.rows,
                        fields |-> queriedFields, owner |-> FALSE],
              queried |-> TRUE]

\* The projects a user has units in.
userProjects(user, db) ==
    {db[i].project : i \in {j \in DOMAIN db : db[j].usr = user}}

\* VerifyOwnership: every queried uuid is a unit of the user or of one of
\* the user's projects.
VerifyOwnership(user, uuids, db) ==
    LET found == {db[i].uuid : i \in {j \in DOMAIN db :
                     db[j].usr = user
                         \/ db[j].project \in userProjects(user, db)}}
    IN  uuids \subseteq found

\* The check of verifyUnitsOwnership made for the logged user instead of the
\* dashboard user.
verifyAsLoggedUser(r, db) ==
    IF VerifyOwnership(getUser(r)[1], r.uuid, db)
    THEN [code |-> 200, status |-> "success", errorType |-> "",
          error |-> "", data |-> {}, fields |-> {}, owner |-> TRUE]
    ELSE errorResponse("forbidden", "user do not have permissions on uuids")

\* verifyUnitsOwnership: 200 with Owner true when the dashboard user passes
\* the ownership check for the queried uuids, a forbidden error otherwise.
verifyResponse(r, db) ==
    IF VerifyOwnership(getUser(r)[2], r.uuid, db)
    THEN [code |-> 200, status |-> "success", errorType |-> "",
          error |-> "", data |-> {}, fields |-> {}, owner |-> TRUE]
    ELSE errorResponse("forbidden", "user do not have permissions on uuids")

HttpInit ==
    /\ httpPc = "new"
    /\ maxQueryPeriod = 0
    /\ dbUnits = UnitsTable
    /\ httpReq = NoRequest
    /\ httpResp = NoResponse
    /\ httpQueried = FALSE

\* NewCEEMSServer: the server takes its maximum query period from the
\* configuration.
NewCEEMSServer ==
    /\ httpPc = "new"
    /\ \E m \in {0, MaxQueryPeriodCfg} : maxQueryPeriod' = m
    /\ httpPc' = "idle"
    /\ UNCHANGED <<dbUnits, httpReq, httpResp, httpQueried, notHttp>>

\* GET /units
units ==
    /\ httpPc = "idle"
    /\ \E u \in Users, qs \in UnitsQueries, dbErr \in BOOLEAN :
          LET r == [endpoint |-> "units", logged |-> u, dashboard |-> u,
                    user |-> {}, project |-> qs.project,
                    running |-> qs.running, uuid |-> qs.uuid,
                    from |-> qs.from, to |-> qs.to, field |-> qs.field]
              out == unitsQuerier({getUser(r)[2]}, r, dbUnits,
                                  maxQueryPeriod, dbErr)
          IN  /\ httpReq' = r
              /\ httpResp' = out.resp
              /\ httpQueried' = out.queried
    /\ httpPc' = "responded"
    /\ UNCHANGED <<maxQueryPeriod, dbUnits, notHttp>>

\* GET /units/admin
unitsAdmin ==
    /\ httpPc = "idle"
    /\ \E us \in {{}, {"usr1"}}, qs \in UnitsQueries, dbErr \in BOOLEAN :
          LET r == [endpoint |-> "admin", logged |-> "usr3",
                    dashboard |-> "usr3",
                    user |-> us, project |-> qs.project,
                    running |-> qs.running, uuid |-> qs.uuid,
                    from |-> qs.from, to |-> qs.to, field |-> qs.field]
              out == unitsQuerier(r.user, r, dbUnits, maxQueryPeriod,
                                  dbErr)
          IN  /\ httpReq' = r
              /\ httpResp' = out.resp
              /\ httpQueried' = out.queried
    /\ httpPc' = "responded"
    /\ UNCHANGED <<maxQueryPeriod, dbUnits, notHttp>>

\* GET /units/verify
verifyUnitsOwnership ==
    /\ httpPc = "idle"
    /\ \E l \in Users, d \in Users, uuids \in SUBSET {"u1", "u2", "u3", "u9"} :
          LET r == [NoRequest EXCEPT !.endpoint = "verify", !.logged = l,
                                     !.dashboard = d, !.uuid = uuids]
          IN  /\ httpReq' = r
              /\ httpResp' = verifyResponse(r, dbUnits)
              /\ httpQueried' = FALSE
    /\ httpPc' = "responded"
    /\ UNCHANGED <<maxQueryPeriod, dbUnits, notHttp>>

\* The handler has returned; the server waits for the next request.
HttpServe ==
    /\ httpPc = "responded"
    /\ httpPc' = "idle"
    /\ httpReq' = NoRequest
    /\ httpResp' = NoResponse
    /\ httpQueried' = FALSE
    /\ UNCHANGED <<maxQueryPeriod, dbUnits, notHttp>>

HttpNext ==
    \/ NewCEEMSServer
    \/ units
    \/ unitsAdmin
    \/ verifyUnitsOwnership
    \/ HttpServe

\* C2 (as stated): every unit GET /units selects is a unit of the dashboard
\* user with ignore = 0, whatever the query parameters.
C2_UnitsOnlyCurrentUser ==
    (httpPc = "responded" /\ httpReq.endpoint = "units")
        => \A i \in httpResp.data :
              dbUnits[i].usr = httpReq.dashboard /\ dbUnits[i].ignore = 0

\* Whether the user is the direct owner of a unit with this uuid.
Owns(user, uuid) ==
    \E i \in DOMAIN dbUnits : dbUnits[i].uuid = uuid /\ dbUnits[i].usr = user

\* Whether the user has a unit in the project of a unit with this uuid.
SharesProject(user, uuid) ==
    \E i, j \in DOMAIN dbUnits :
        /\ dbUnits[i].uuid = uuid
        /\ dbUnits[j].usr = user
        /\ dbUnits[j].project = dbUnits[i].project

UnitsNoUuid ==
    httpPc = "responded" /\ httpReq.endpoint = "units" /\ httpReq.uuid = {}

\* The response is an error response of type bad_data with no data.
IsBadData ==
    /\ httpResp.status = "error"
    /\ httpResp.errorType = "bad_data"
    /\ httpResp.data = {}

\* C13 (as stated): for GET /units without uuid, a from or to parameter
\* that is not an integer timestamp yields a bad_data error response with
\* no data, and s.Querier is not called.
C13_NotIntegerIsBadData ==
    (UnitsNoUuid /\ (httpReq.from.kind \in {"empty", "malformed"}
                        \/ httpReq.to.kind \in {"empty", "malformed"}))
        => IsBadData /\ ~httpQueried

\* C13 amended: that holds for a from or to with a non-empty value that
\* does not parse as an integer; an empty from or to stands for an absent
\* one and yields no such error.
C13_UnparsableIsBadData ==
    UnitsNoUuid =>
        /\ (httpReq.from.kind = "malformed" \/ httpReq.to.kind = "malformed")
              => /\ IsBadData
                 /\ ~httpQueried
                 /\ httpResp.error \in {"malformed 'from' timestamp",
                                        "malformed 'to' timestamp"}
        /\ (GetIsEmpty(httpReq.from) /\ GetIsEmpty(httpReq.to))
              => httpQueried /\ ~IsBadData

\* C13 witness: a request whose to is malformed and whose from is an
\* integer was answered by a bad_data error.
C13_Witness ==
    /\ UnitsNoUuid
    /\ httpReq.from.kind = "int"
    /\ httpReq.to.kind = "malformed"
    /\ IsBadData
    /\ ~httpQueried

\* The from and to supplied with the request are further apart than the
\* maximum query period.
WindowExceeded ==
    /\ httpReq.from.kind = "int"
    /\ httpReq.to.kind = "int"
    /\ maxQueryPeriod > 0
    /\ httpReq.to.v - httpReq.from.v > maxQueryPeriod

\* C14 (as stated): GET /units rejects a window longer than maxQueryPeriod
\* with "maximum query window exceeded" and no data, unless a uuid is
\* queried: then the units are returned with status success.
C14_WindowOrSuccess ==
    (httpPc = "responded" /\ httpReq.endpoint = "units" /\ WindowExceeded)
        => IF httpReq.uuid = {}
           THEN /\ httpResp.status = "error"
                /\ httpResp.error = "maximum query window exceeded"
                /\ httpResp.data = {}
           ELSE httpResp.status = "success"

\* C14 amended: with a uuid the window is not checked and s.Querier is
\* called; the answer is success with the units it returned, or an internal
\* error when it failed.
C14_WindowOrQueried ==
    (httpPc = "responded" /\ httpReq.endpoint = "units" /\ WindowExceeded)
        => IF httpReq.uuid = {}
           THEN /\ httpResp.status = "error"
                /\ httpResp.error = "maximum query window exceeded"
                /\ httpResp.data = {}
                /\ ~httpQueried
           ELSE /\ httpQueried
                /\ \/ httpResp.status = "success"
                   \/ httpResp.errorType = "internal" /\ httpResp.data = {}
                /\ httpReq.field # {"bogus"} =>
                      \/ httpResp.status = "success"
                      \/ httpResp.error = "database error"

\* C14 witness: a request with a window longer than the maximum and a uuid
\* was answered with the unit.
C14_Witness ==
    /\ httpPc = "responded"
    /\ httpReq.endpoint = "units"
    /\ WindowExceeded
    /\ httpReq.uuid = {"u1"}
    /\ httpResp.status = "success"
    /\ httpResp.data # {}

\* C15 (as stated): getQueryWindow uses the current time for an absent to,
\* and to - 24h for an absent from: the default window is the 24 hours
\* that end at to.
C15_DefaultWindowEndsAtTo ==
    (UnitsNoUuid /\ httpReq.from.kind = "absent"
                 /\ httpReq.to.kind \in {"absent", "int"})
        => LET w == getQueryWindow(httpReq, maxQueryPeriod)
               to == IF httpReq.to.kind = "absent" THEN Now
                     ELSE httpReq.to.v
           IN  w.err = "" => w.to = to /\ w.from = to - DefaultQueryWindow

\* ------------------------------------------------------------------------
\* perf collector (perfCollector)
\* ------------------------------------------------------------------------
\* Largest counter value and largest enabled time the kernel reports for a
\* profiler.
MaxCount == 1
MaxTime == 2
\* Largest field of the profile values scaleCounter is applied to on its own.
MaxRead == 5
\* Most system calls that fail in one step, and the number of scrapes.
MaxFaults == 1
MaxScrapes == 2
\* perf.ProfileValue holds unsigned integers: their differences wrap.  The
\* wrap is modelled at UintMod instead of 2^64.
UintMod == 256

\* The processes that may run on the node, and the compute unit (cgroup)
\* each of them belongs to.
PIDs == {100, 101, 102}
CgroupUUIDs == {"u1", "u2"}
CgroupOf == (100 :> "u1") @@ (101 :> "u1") @@ (102 :> "u2")
\* The other processes cgroupProcFilterer is applied to.
FilterPIDs == {200, 201, 202, 203, 204, 205, 206}

\* strings.HasPrefix, on strings as sequences of characters.
HasPrefix(str, prefix) ==
    /\ Len(prefix) <= Len(str)
    /\ SubSeq(str, 1, Len(prefix)) = prefix

\* procfs.Proc: what CmdLine() and Environ() return for each process.
\* cmdErr / envErr: the call returns an error; cmdLine is the command line
\* joined by spaces ("" when it is empty); environ holds the KEY=VALUE
\* entries of /proc/<pid>/environ.
JobEnv == {<<"J", "I", "D", "=", "1">>, <<"H", "=", "x">>}
PlainEnv == {<<"H", "=", "x">>}
ShortEnv == {<<"J", "=", "1">>}
ProcOf(cmdErr, cmdLine, envErr, environ) ==
    [cmdErr |-> cmdErr, cmdLine |-> cmdLine, envErr |-> envErr,
     environ |-> environ]
Procs ==
    (100 :> ProcOf(FALSE, "job", FALSE, JobEnv))
    @@ (101 :> ProcOf(FALSE, "job", FALSE, PlainEnv))
    @@ (102 :> ProcOf(FALSE, "job", FALSE, JobEnv))
    @@ (200 :> ProcOf(FALSE, "job", FALSE, JobEnv))
    @@ (201 :> ProcOf(FALSE, "slurmstepd", FALSE, JobEnv))
    @@ (202 :> ProcOf(FALSE, "job", TRUE, JobEnv))
    @@ (203 :> ProcOf(TRUE, "job", FALSE, JobEnv))
    @@ (204 :> ProcOf(FALSE, "", FALSE, JobEnv))
    @@ (205 :> ProcOf(FALSE, "job", FALSE, PlainEnv))
    @@ (206 :> ProcOf(FALSE, "job", FALSE, ShortEnv))

\* --collector.perf.env-var of the perf collector, when it is set, and
\* cgroupManager.ignoreProc: the command lines it matches.
perfProfilersEnvVars == {<<"J", "I", "D">>}
ignoreProc == [isNil |-> FALSE, matches |-> {"slurmstepd"}]

\* addProc without the ignore predicate: every process is inspected.
addProcAnyCmdLine(pid, targetEnvVars, procFilter) ==
    /\ ~Procs[pid].envErr
    /\ \E env \in Procs[pid].environ : \E targetEnvVar \in targetEnvVars :
          HasPrefix(env, targetEnvVar)

\* addProc with a process whose command line matches procFilter inspected
\* like any other.
addProcMatchKept(pid, targetEnvVars, procFilter) ==
    LET proc == Procs[pid]
    IN  /\ ~procFilter.isNil => ~proc.cmdErr /\ proc.cmdLine # ""
        /\ ~proc.envErr
        /\ \E env \in proc.environ : \E targetEnvVar \in targetEnvVars :
              HasPrefix(env, targetEnvVar)

\* The body of cgroupProcFilterer's loop over the processes of a cgroup: the
\* process is skipped when procFilter is set and its command line cannot be
\* read, is empty or matches procFilter, and when its environ cannot be
\* read; else it is added when an entry of its environ starts with a
\* target.  procFilter is nil or matches a set of command lines.
addProc(pid, targetEnvVars, procFilter) ==
    LET proc == Procs[pid]
    IN  /\ ~procFilter.isNil =>
              /\ ~proc.cmdErr
              /\ proc.cmdLine # ""
              /\ proc.cmdLine \notin procFilter.matches
        /\ ~proc.envErr
        /\ \E env \in proc.environ : \E targetEnvVar \in targetEnvVars :
              HasPrefix(env, targetEnvVar)

\* The processes of the perf collector's node that pass its filter.
PidsWithEnv == {p \in PIDs : addProc(p, perfProfilersEnvVars, ignoreProc)}

Kinds == {"hw", "sw", "cache"}

\* perf.ProfileValue: an event never runs longer than it is enabled, and
\* counts only while it runs.
ProfileValuesUpTo(count, time) ==
    {pv \in [Value : 0..count, TimeEnabled : 0..time,
             TimeRunning : 0..time] :
        /\ pv.TimeRunning <= pv.TimeEnabled
        /\ pv.Value > 0 => pv.TimeRunning > 0}
ProfileValues == ProfileValuesUpTo(MaxCount, MaxTime)
ZeroValue == [Value |-> 0, TimeEnabled |-> 0, TimeRunning |-> 0]

\* What a profiler whose last kernel reading was pv may read next: no
\* field decreases, the event has not run for longer than it was enabled
\* since, and it has counted only if it ran.
Later(pv, n) ==
    /\ n.Value >= pv.Value
    /\ n.TimeRunning >= pv.TimeRunning
    /\ n.TimeEnabled - pv.TimeEnabled >= n.TimeRunning - pv.TimeRunning
    /\ n.Value > pv.Value => n.TimeRunning > pv.TimeRunning
LaterReads(pv, ticks) ==
    IF ~ticks THEN {pv} ELSE {n \in ProfileValues : Later(pv, n)}

\* math.Round of the quotient n / d of two naturals (d > 0): to the nearest
\* whole, halves away from zero.
Round(n, d) == (2 * n + d) \div (2 * d)

\* Difference of two unsigned integers.
USub(a, b) == (a - b) % UintMod

\* scaleCounter: the counter delta, extrapolated by enabled / running time
\* when the counter ran.
scaleCounter(lastProfileValue, currentProfileValue) ==
    LET deltaEnabled == USub(currentProfileValue.TimeEnabled,
                             lastProfileValue.TimeEnabled)
        deltaRunning == USub(currentProfileValue.TimeRunning,
                             lastProfileValue.TimeRunning)
        deltaCounter == USub(currentProfileValue.Value,
                             lastProfileValue.Value)
    IN  IF deltaRunning > 0
        THEN Round(deltaEnabled * deltaCounter, deltaRunning)
        ELSE deltaCounter

\* A Go map read: the zero value when the key is absent.
MapGet(m, k, zero) == IF k \in DOMAIN m THEN m[k] ELSE zero

\* The sum of f over the set S.
RECURSIVE SumOver(_, _)
SumOver(f, S) ==
    IF S = {} THEN 0
    ELSE LET x == CHOOSE y \in S : TRUE
         IN  f[x] + SumOver(f, S \ {x})

\* A map from which no entry is deleted.
KeepAll(m, S) == m

\* Restriction of a map to the keys in S (delete of every other key).
Keep(m, S) == [k \in DOMAIN m \cap S |-> m[k]]

\* The cgroups the exporter passes to Update: the compute units that have
\* running processes, each with its processes.
ActiveCgroups(status) ==
    LET running == {p \in PIDs : status[p] = "running"}
    IN  [u \in {CgroupOf[p] : p \in running}
            |-> {p \in running : CgroupOf[p] = u}]

\* The PIDs of a list of cgroups.
ProcsOf(cgroups) == UNION {cgroups[u] : u \in DOMAIN cgroups}

\* cgroupProcFilterer: keep the processes that have a target env var, and
\* the cgroups that keep at least one process.
cgroupProcFilterer(cgroups, targetEnvVars, procFilter) ==
    LET filteredProcs(u) ==
            {p \in cgroups[u] : addProc(p, targetEnvVars, procFilter)}
    IN  IF targetEnvVars = {} THEN cgroups
        ELSE [u \in {x \in DOMAIN cgroups : filteredProcs(x) # {}}
                 |-> filteredProcs(u)]

\* perfCollector.opts.targetEnvVars.
optsTargetEnvVars == IF opts.env THEN perfProfilersEnvVars ELSE {}

\* The PIDs openProfilers opens a profiler for, whether or not they have one.
openCallsAgain(table, enabled, cgroups) ==
    IF enabled THEN ProcsOf(cgroups) ELSE {}

\* The PIDs openProfilers opens a profiler for, for one kind: the PIDs of
\* the cgroups that have no entry in the table.
openCalls(table, enabled, cgroups) ==
    IF enabled THEN ProcsOf(cgroups) \ table ELSE {}

\* openProfilers, for the table of one kind: a profiler is opened for every
\* PID of the cgroups that has none; failed holds the PIDs whose open or
\* start fails.
openProfilers(table, enabled, cgroups, failed) ==
    table \cup (openCalls(table, enabled, cgroups) \ failed)

\* closeProfilers closing the profilers of active PIDs as well.
closedProfilersAll(table, enabled, activePIDs, failed) ==
    IF enabled THEN table \ failed ELSE {}

\* closeProfilers taking every stop and close to have worked.
closedProfilersUnchecked(table, enabled, activePIDs, failed) ==
    IF enabled THEN table \ activePIDs ELSE {}

\* The profilers that closeProfilers stops and closes with success.
closedProfilers(table, enabled, activePIDs, failed) ==
    IF enabled THEN (table \ activePIDs) \ failed ELSE {}

\* closeProfilers with the entry deleted whether or not the close worked.
closeProfilersAlways(table, enabled, activePIDs, failed) ==
    IF enabled THEN table \cap activePIDs ELSE table

\* closeProfilers with the profilers stopped and closed and no entry deleted.
closeProfilersNoDelete(table, enabled, activePIDs, failed) == table

\* closeProfilers, for the table of one kind: every profiler of a PID that
\* is not active is stopped and closed, and deleted when that succeeded.
closeProfilers(table, enabled, activePIDs, failed) ==
    table \ closedProfilers(table, enabled, activePIDs, failed)

\* The system calls that may fail in one step: none in an environment
\* without faults, else any set of at most MaxFaults of the calls.
RECURSIVE SetsUpTo(_, _)
SetsUpTo(calls, n) ==
    IF n = 0 THEN {{}}
    ELSE LET S == SetsUpTo(calls, n - 1)
         IN  S \cup {s \cup {c} : s \in S, c \in calls}

FaultSets(calls, faults) ==
    IF ~faults THEN {{}} ELSE SetsUpTo(calls, MaxFaults)

NoneClosed == [k \in Kinds |-> {}]

NoneAggregated == [hw |-> {}, cache |-> {}]

\* The profiler tables by kind.
Tables == [hw |-> perfHwProfilers, sw |-> perfSwProfilers,
           cache |-> perfCacheProfilers]

\* The configurations the collector is started with (the enabled kinds and
\* whether target env vars are set), by the environment it runs in.
OptsChoices(ticks) ==
    IF ticks
    THEN {[hw |-> TRUE, sw |-> FALSE, cache |-> FALSE, env |-> FALSE],
          [hw |-> FALSE, sw |-> TRUE, cache |-> FALSE, env |-> FALSE],
          [hw |-> FALSE, sw |-> FALSE, cache |-> TRUE, env |-> FALSE]}
    ELSE {[hw |-> TRUE, sw |-> TRUE, cache |-> TRUE, env |-> FALSE],
          [hw |-> TRUE, sw |-> FALSE, cache |-> FALSE, env |-> TRUE]}

PerfInit ==
    /\ perfPc = "new"
    /\ opts = [hw |-> FALSE, sw |-> FALSE, cache |-> FALSE, env |-> FALSE]
    /\ procStatus = [p \in PIDs |-> "none"]
    /\ kern = [k \in Kinds |-> [p \in PIDs |-> ZeroValue]]
    /\ perfHwProfilers = {}
    /\ perfSwProfilers = {}
    /\ perfCacheProfilers = {}
    /\ perfClosed = NoneClosed
    /\ scrapeFaults = {}
    /\ lastRawHwCounters = <<>>
    /\ lastScaledHwCounters = <<>>
    /\ lastRawCacheCounters = <<>>
    /\ lastScaledCacheCounters = <<>>
    /\ perfCh = [u \in CgroupUUIDs |-> [k \in Kinds |-> 0]]
    /\ scrapeCgroups = <<>>
    /\ gor = <<>>
    /\ contribSum = [p \in PIDs |-> 0]
    /\ aggSnapshotPIDs = NoneAggregated
    /\ perfOpened = NoneClosed
    /\ scrapes = 0

\* NewPerfCollector: the collector takes its options from the command line;
\* its tables and snapshot maps are empty.
NewPerfCollector ==
    /\ perfPc = "new"
    /\ \E o \in OptsChoices(envTicks) : opts' = o
    /\ perfPc' = "ready"
    /\ UNCHANGED <<perfEnv, procStatus, kern, perfTables, perfSnapshots,
                   perfGhost, perfCh, scrapeCgroups, gor, scrapes, notPerf>>

\* A process of a compute unit starts between two scrapes.
ProcStart ==
    /\ perfPc = "ready"
    /\ \E p \in PIDs :
          /\ procStatus[p] = "none"
          /\ procStatus' = [procStatus EXCEPT ![p] = "running"]
    /\ UNCHANGED <<perfPc, opts, perfEnv, kern, perfTables, perfSnapshots,
                   perfGhost, perfCh, scrapeCgroups, gor, scrapes, notPerf>>

\* A process exits between two scrapes; its PID is not used again.
ProcExit ==
    /\ perfPc = "ready"
    /\ \E p \in PIDs :
          /\ procStatus[p] = "running"
          /\ procStatus' = [procStatus EXCEPT ![p] = "exited"]
    /\ UNCHANGED <<perfPc, opts, perfEnv, kern, perfTables, perfSnapshots,
                   perfGhost, perfCh, scrapeCgroups, gor, scrapes, notPerf>>

\* The calls of Update that fail, of those it makes: F is the set of calls
\* the environment lets fail.
FilterErr(F) == opts.env /\ <<"ctx_filter", "", 0>> \in F
OpenErr(F) == <<"ctx_open", "", 0>> \in F
CloseErr(F) == <<"ctx_close", "", 0>> \in F
OpenFailed(F, k) == {p \in PIDs : <<"open", k, p>> \in F}
CloseFailed(F, k) == {p \in PIDs : <<"close", k, p>> \in F}

\* The calls Update may make.
UpdateCalls ==
    {<<c, "", 0>> : c \in {"ctx_filter", "ctx_open", "ctx_close"}}
        \cup {<<c, k, p>> : c \in {"open", "close"}, k \in Kinds, p \in PIDs}

\* newProfilers opening the profilers although the security context failed.
newProfilersOutsideCtx(table, enabled, cgroups, F, k) ==
    openProfilers(table, enabled, cgroups, OpenFailed(F, k))

\* newProfilers, for the table of one kind.
newProfilers(table, enabled, cgroups, F, k) ==
    IF OpenErr(F) THEN table
    ELSE openProfilers(table, enabled, cgroups, OpenFailed(F, k))

\* newProfilers returning the PIDs of the cgroups although the security
\* context failed.
activePIDsDespiteErr(cgroups, F) == ProcsOf(cgroups)

\* What newProfilers returns: the PIDs of the cgroups, or nil when the
\* security context is missing or its Exec returned an error.
activePIDsOf(cgroups, F) == IF OpenErr(F) THEN {} ELSE ProcsOf(cgroups)

\* The goroutine of a cgroup calls updateHardwareCounters,
\* updateSoftwareCounters and updateCacheCounters in this order; the update
\* function of a kind that is not enabled returns at once, so the next step
\* of a goroutine is the first update function of an enabled kind that it
\* has not run yet.
StepAfter(step) ==
    IF step = "start" /\ opts.hw THEN "hw"
    ELSE IF step \in {"start", "hw"} /\ opts.sw THEN "sw"
    ELSE IF step \in {"start", "hw", "sw"} /\ opts.cache THEN "cache"
    ELSE "done"

\* perfCollector.Update up to the start of the goroutines: filterProcs,
\* newProfilers and closeProfilers.  F is the set of calls that fail.
Update ==
    /\ perfPc = "ready"
    /\ scrapes < MaxScrapes
    /\ scrapes' = scrapes + 1
    /\ \E F \in FaultSets(UpdateCalls, envFaults) :
          LET all == ActiveCgroups(procStatus)
              cgroups == IF FilterErr(F) THEN <<>>
                         ELSE cgroupProcFilterer(all, optsTargetEnvVars,
                                                 ignoreProc)
              activePIDs == activePIDsOf(cgroups, F)
              opened == [k \in Kinds |->

                            newProfilers(Tables[k], opts[k], cgroups, F, k)]
              started == [k \in Kinds |->
                             IF OpenErr(F) THEN {}
                             ELSE openCalls(Tables[k], opts[k], cgroups)
                                     \ OpenFailed(F, k)]
              closed == [k \in Kinds |->
                            IF CloseErr(F) THEN {}
                            ELSE closedProfilers(opened[k], opts[k],
                                                 activePIDs,
                                                 CloseFailed(F, k))]
              after == [k \in Kinds |->
                           IF CloseErr(F) THEN opened[k]
                           ELSE closeProfilers(opened[k], opts[k],
                                               activePIDs,
                                               CloseFailed(F, k))]
              made == {c \in F :
                         \/ c[1] = "ctx_filter" /\ opts.env
                         \/ c[1] \in {"ctx_open", "ctx_close"}
                         \/ /\ c[1] = "open"
                            /\ ~OpenErr(F)
                            /\ c[3] \in openCalls(Tables[c[2]], opts[c[2]],
                                                   cgroups)
                         \/ /\ c[1] = "close"
                            /\ ~CloseErr(F)
                            /\ opts[c[2]]
                            /\ c[3] \in opened[c[2]] \ activePIDs}
          IN  IF FilterErr(F)
              THEN /\ scrapeFaults' = {<<"ctx_filter", "", 0>>}
                   /\ perfClosed' = NoneClosed
                   /\ perfOpened' = NoneClosed
                   /\ scrapeCgroups' = <<>>
                   /\ gor' = <<>>
                   /\ UNCHANGED <<perfTables, kern>>
              ELSE /\ scrapeFaults' = made
                   /\ perfClosed' = closed
                   /\ perfOpened' = started
                   /\ perfHwProfilers' = after.hw
                   /\ perfSwProfilers' = after.sw
                   /\ perfCacheProfilers' = after.cache
                   \* a profiler that is opened counts from zero
                   /\ kern' = [k \in Kinds |-> [p \in PIDs |->
                                 IF p \in started[k]
                                 THEN ZeroValue ELSE kern[k][p]]]
                   /\ scrapeCgroups' = cgroups
                   /\ gor' = [u \in DOMAIN cgroups |-> StepAfter("start")]
    /\ perfPc' = "scraping"
    /\ UNCHANGED <<opts, perfEnv, procStatus, perfSnapshots, contribSum,
                   aggSnapshotPIDs, perfCh, notPerf>>

\* What the Profile calls of one update function read: nothing for a PID
\* without a profiler or whose Profile call fails, else the kernel counters
\* of the PID's profiler, which have moved on since its last read.
ProfileReads(procs, table, k, failed) ==
    {r \in [(procs \cap table) \ failed -> ProfileValues] :
        \A p \in DOMAIN r : r[p] \in LaterReads(kern[k][p], envTicks)}

\* The kernel counters after the reads r of kind k.
KernAfter(k, r) ==
    [kern EXCEPT ![k] = [p \in PIDs |->
                            IF p \in DOMAIN r THEN r[p] ELSE kern[k][p]]]

\* The snapshot maps with an (empty) entry made for every process that has
\* none: lines 1477-1483 and 1752-1758.
WithEntries(m, procs, zero) ==
    [p \in DOMAIN m \cup procs |-> MapGet(m, p, zero)]

\* aggHardwareCounters / aggCacheCounters, per PID: the scaled counter of
\* each profile read.
ScaledCounters(lastRaw, lastScaled, r) ==
    [p \in DOMAIN r |->
        MapGet(lastScaled, p, 0)
            + scaleCounter(MapGet(lastRaw, p, ZeroValue), r[p])]

\* A map with the entries of upd written over it.
Written(m, upd) ==
    [p \in DOMAIN m \cup DOMAIN upd |->
        IF p \in DOMAIN upd THEN upd[p] ELSE m[p]]

\* The sample Update sends on ch for a counter: only a value > 0 is sent
\* (0 stands for no sample).
Sample(value) == IF value > 0 THEN value ELSE 0

\* updateHardwareCounters, run by the goroutine of one cgroup: read the
\* profiles, aggregate them, evict the snapshots of the PIDs that are not
\* processes of this cgroup, send the sample.
updateHardwareCounters ==
    /\ perfPc = "scraping"
    /\ \E u \in DOMAIN gor :
          /\ gor[u] = "hw"
          /\ gor' = [gor EXCEPT ![u] = StepAfter("hw")]
          /\ LET procs == scrapeCgroups[u] IN
                  \E failed \in FaultSets(procs \cap perfHwProfilers,
                                          envFaults) :
                  \E r \in ProfileReads(procs, perfHwProfilers, "hw",
                                        failed) :
                     LET raw == WithEntries(lastRawHwCounters, procs,
                                            ZeroValue)
                         scaled == WithEntries(lastScaledHwCounters,
                                               procs, 0)
                         scaledCounter == ScaledCounters(raw, scaled, r)
                     IN  /\ kern' = KernAfter("hw", r)
                         /\ lastRawHwCounters' =
                                Keep(Written(raw, r), procs)
                         /\ lastScaledHwCounters' =
                                Keep(Written(scaled, scaledCounter), procs)
                         /\ perfCh' = [perfCh EXCEPT ![u].hw =
                                Sample(SumOver(scaledCounter, DOMAIN r))]
                         /\ contribSum' = [p \in PIDs |->
                                IF p \in DOMAIN r
                                THEN contribSum[p]
                                        + scaleCounter(raw[p], r[p])
                                ELSE contribSum[p]]
                         /\ aggSnapshotPIDs' =
                                [aggSnapshotPIDs EXCEPT !.hw = DOMAIN raw]
    /\ UNCHANGED <<perfPc, opts, perfEnv, procStatus, perfTables,
                   perfClosed, perfOpened, scrapeFaults,
                   lastRawCacheCounters, lastScaledCacheCounters,
                   scrapeCgroups, scrapes, notPerf>>

\* updateSoftwareCounters: the sum of the raw counter values read.
updateSoftwareCounters ==
    /\ perfPc = "scraping"
    /\ \E u \in DOMAIN gor :
          /\ gor[u] = "sw"
          /\ gor' = [gor EXCEPT ![u] = StepAfter("sw")]
          /\ LET procs == scrapeCgroups[u] IN
                  \E failed \in FaultSets(procs \cap perfSwProfilers,
                                          envFaults) :
                  \E r \in ProfileReads(procs, perfSwProfilers, "sw",
                                        failed) :
                     /\ kern' = KernAfter("sw", r)
                     /\ perfCh' = [perfCh EXCEPT ![u].sw =
                            Sample(SumOver([p \in DOMAIN r |-> r[p].Value],
                                           DOMAIN r))]
    /\ UNCHANGED <<perfPc, opts, perfEnv, procStatus, perfTables,
                   perfSnapshots, perfGhost, scrapeCgroups, scrapes, notPerf>>

\* updateCacheCounters: read the profiles, evict the snapshots of the PIDs
\* that are not processes of this cgroup, aggregate, send the sample.
updateCacheCounters ==
    /\ perfPc = "scraping"
    /\ \E u \in DOMAIN gor :
          /\ gor[u] = "cache"
          /\ gor' = [gor EXCEPT ![u] = StepAfter("cache")]
          /\ LET procs == scrapeCgroups[u] IN
                  \E failed \in FaultSets(procs \cap perfCacheProfilers,
                                          envFaults) :
                  \E r \in ProfileReads(procs, perfCacheProfilers, "cache",
                                        failed) :
                     LET raw == Keep(WithEntries(lastRawCacheCounters,
                                                 procs, ZeroValue), procs)
                         scaled == Keep(WithEntries(lastScaledCacheCounters,
                                                    procs, 0), procs)
                         scaledCounter == ScaledCounters(raw, scaled, r)
                     IN  /\ kern' = KernAfter("cache", r)
                         /\ lastRawCacheCounters' = Written(raw, r)
                         /\ lastScaledCacheCounters' =
                                Written(scaled, scaledCounter)
                         /\ perfCh' = [perfCh EXCEPT ![u].cache =
                                Sample(SumOver(scaledCounter, DOMAIN r))]
                         /\ aggSnapshotPIDs' =
                                [aggSnapshotPIDs EXCEPT !.cache = DOMAIN raw]
    /\ UNCHANGED <<perfPc, opts, perfEnv, procStatus, perfTables,
                   lastRawHwCounters, lastScaledHwCounters, perfClosed,
                   perfOpened, scrapeFaults, contribSum, scrapeCgroups,
                   scrapes, notPerf>>

\* wg.Wait: Update returns once every goroutine is done.
UpdateReturn ==
    /\ perfPc = "scraping"
    /\ \A u \in DOMAIN gor : gor[u] = "done"
    /\ perfPc' = "ready"
    /\ scrapeCgroups' = <<>>
    /\ gor' = <<>>
    /\ scrapeFaults' = {}
    /\ perfClosed' = NoneClosed
    /\ perfOpened' = NoneClosed
    /\ aggSnapshotPIDs' = NoneAggregated
    /\ UNCHANGED <<opts, perfEnv, procStatus, kern, perfTables,
                   perfSnapshots, contribSum, perfCh, scrapes, notPerf>>

\* perfCollector.Stop: closeProfilers with no active PID.
Stop ==
    /\ perfPc = "ready"
    /\ \E F \in FaultSets({c \in UpdateCalls : c[1] \in {"ctx_close", "close"}},
                          envFaults) :
          LET closed == [k \in Kinds |->
                            IF CloseErr(F) THEN {}
                            ELSE closedProfilers(Tables[k], opts[k], {},
                                                 CloseFailed(F, k))]
          IN  /\ perfClosed' = closed
              /\ perfOpened' = NoneClosed
              /\ perfHwProfilers' =
                     IF CloseErr(F) THEN perfHwProfilers
                     ELSE closeProfilers(perfHwProfilers, opts.hw, {},
                                         CloseFailed(F, "hw"))
              /\ perfSwProfilers' =
                     IF CloseErr(F) THEN perfSwProfilers
                     ELSE closeProfilers(perfSwProfilers, opts.sw, {},
                                         CloseFailed(F, "sw"))
              /\ perfCacheProfilers' =
                     IF CloseErr(F) THEN perfCacheProfilers
                     ELSE closeProfilers(perfCacheProfilers, opts.cache, {},
                                         CloseFailed(F, "cache"))
              /\ scrapeFaults' = {c \in F :
                     \/ c[1] = "ctx_close"
                     \/ ~CloseErr(F) /\ opts[c[2]] /\ c[3] \in Tables[c[2]]}
    /\ perfPc' = "stopped"
    /\ UNCHANGED <<opts, perfEnv, procStatus, kern, perfSnapshots,
                   contribSum, aggSnapshotPIDs, perfCh, scrapeCgroups, gor,
                   scrapes, notPerf>>

PerfNext ==
    \/ NewPerfCollector
    \/ ProcStart
    \/ ProcExit
    \/ Update
    \/ updateHardwareCounters
    \/ updateSoftwareCounters
    \/ updateCacheCounters
    \/ UpdateReturn
    \/ Stop


\* ------------------------------------------------------------------------
\* perf collector: properties
\* ------------------------------------------------------------------------
\* The processes of a compute unit.
PidsOf(u) == {p \in PIDs : CgroupOf[p] = u}

\* C1 (as stated): the sample sent for a hardware or cache counter of a
\* uuid is never smaller than the sample sent for it at the scrape before;
\* the raw reads of every PID never decrease (LaterReads).
C1_CounterMonotone ==
    [][\A u \in CgroupUUIDs, k \in {"hw", "cache"} :
          (perfCh[u][k] > 0 /\ perfCh'[u][k] > 0)
              => perfCh'[u][k] >= perfCh[u][k]]_vars

\* An Update step up to the start of its goroutines.
UpdateStep == perfPc = "ready" /\ perfPc' = "scraping"

\* The PIDs of the cgroups accepted for a scrape that starts now.
AcceptedPIDs ==
    ProcsOf(cgroupProcFilterer(ActiveCgroups(procStatus), optsTargetEnvVars,
                               ignoreProc))

StopStep == perfPc = "ready" /\ perfPc' = "stopped"

StepOf(u, kind) == u \in DOMAIN gor /\ gor[u] = kind /\ gor'[u] # kind

\* The PIDs with a snapshot entry that are not in the active PID set of the
\* scrape in progress.
StalePIDs(snapshot) == DOMAIN snapshot \ ProcsOf(scrapeCgroups)

\* C19 (as stated): in every scrape, for hardware and cache counters alike,
\* every PID of the snapshot tables that is not in the active PID set is
\* evicted before the snapshot values of the scrape are written.
C19_EvictedBeforeWritten ==
    [][\A u \in DOMAIN gor :
          /\ StepOf(u, "hw")
                => aggSnapshotPIDs'.hw \cap StalePIDs(lastRawHwCounters) = {}
          /\ StepOf(u, "cache")
                => aggSnapshotPIDs'.cache \cap StalePIDs(lastRawCacheCounters)
                      = {}]_vars

\* C19 amended: the cache counters are aggregated over snapshot tables
\* that hold the processes of the cgroup and nothing else; the hardware
\* counters are aggregated with nothing evicted yet, and the tables hold
\* exactly the processes of the cgroup when the update function returns.
C19_EvictedByReturn ==
    [][\A u \in DOMAIN gor :
          /\ StepOf(u, "cache")
                => /\ aggSnapshotPIDs'.cache = scrapeCgroups[u]
                   /\ DOMAIN lastRawCacheCounters' = scrapeCgroups[u]
                   /\ DOMAIN lastScaledCacheCounters' = scrapeCgroups[u]
          /\ StepOf(u, "hw")
                => /\ aggSnapshotPIDs'.hw
                         = DOMAIN lastRawHwCounters \cup scrapeCgroups[u]
                   /\ DOMAIN lastRawHwCounters' = scrapeCgroups[u]
                   /\ DOMAIN lastScaledHwCounters' = scrapeCgroups[u]]_vars

\* C19 witness: the hardware counters were aggregated while a PID that is
\* in no cgroup of the scrape still had its snapshot entry, the entry is
\* gone now, and the cache counters were aggregated too.
C19_Witness ==
    /\ perfPc = "scraping"
    /\ \E p \in aggSnapshotPIDs.hw :
          /\ p \notin ProcsOf(scrapeCgroups)
          /\ p \notin DOMAIN lastRawHwCounters
    /\ aggSnapshotPIDs.cache # {}

\* The calls that failed in the scrape among those that open profilers of
\* kind k: the filter and open security contexts and the opens themselves.
OpenFaults(faults, k) ==
    {c \in faults : \/ c[1] \in {"ctx_filter", "ctx_open"}
                    \/ c[1] = "open" /\ c[2] = k}

\* C20 (as stated): in every scrape a profiler of an enabled kind is opened
\* for a PID exactly when the PID is in a cgroup accepted for the scrape
\* and has no entry of that kind; a PID with an entry is never opened again.
C20_OpenedIffSeenWithoutEntry ==
    [][UpdateStep
          => \A k \in {x \in Kinds : opts[x]} :
                perfOpened'[k] = AcceptedPIDs \ Tables[k]]_vars

\* C20 amended: a profiler is opened only for a PID of an accepted cgroup
\* that has no entry of that kind, never for a PID that has one and never
\* for a kind that is not enabled; the opened profilers are the entries the
\* scrape adds to the table; and every such PID is opened when neither the
\* filter or open security context nor an open of that kind fails.
C20_OpenedOnlyWithoutEntry ==
    [][UpdateStep
          => \A k \in Kinds :
                /\ perfOpened'[k] \subseteq AcceptedPIDs \ Tables[k]
                /\ perfOpened'[k] = Tables'[k] \ Tables[k]
                /\ ~opts[k] => perfOpened'[k] = {}
                /\ (opts[k] /\ OpenFaults(scrapeFaults', k) = {})
                      => perfOpened'[k] = AcceptedPIDs \ Tables[k]]_vars

\* C20 witness: a scrape without failures opened the hardware profiler of
\* 102 and left the profiler that 101 already had as it was.
C20_Witness ==
    /\ perfPc = "scraping"
    /\ scrapeFaults = {}
    /\ perfOpened.hw = {102}
    /\ perfHwProfilers = {101, 102}

\* The active PIDs newProfilers reports for a scrape that starts now, given
\* the calls that fail in it.
ReportedActivePIDs(faults) ==
    IF <<"ctx_open", "", 0>> \in faults THEN {} ELSE AcceptedPIDs

\* Every goroutine of the scrape in progress has read its counters.
CountersRead == perfPc = "scraping" /\ \A u \in DOMAIN gor : gor[u] = "done"

C22_OpenCloseInsideContext ==
    [][\A k \in Kinds :
          /\ Tables'[k] # Tables[k] => UpdateStep \/ StopStep
          /\ (UpdateStep \/ StopStep)
                => /\ <<"ctx_open", "", 0>> \in scrapeFaults'
                         => /\ perfOpened'[k] = {}
                            /\ Tables'[k] \subseteq Tables[k]
                            /\ perfClosed'[k] \subseteq Tables[k]
                   /\ <<"ctx_close", "", 0>> \in scrapeFaults'
                         => /\ perfClosed'[k] = {}
                            /\ Tables[k] \subseteq Tables'[k]]_vars

\* C22 witness: the open security context failed in a scrape over a cgroup
\* whose processes have no hardware profiler, and none was opened.
C22_Witness ==
    /\ perfPc = "scraping"
    /\ opts.hw
    /\ <<"ctx_open", "", 0>> \in scrapeFaults
    /\ ProcsOf(scrapeCgroups) # {}
    /\ perfOpened.hw = {}
    /\ perfHwProfilers = {}

CloseAttempts(closed, faults, k) == closed[k] \cup CloseFailed(faults, k)

\* C30 (as stated): a profiler leaves the table only when its stop and
\* close succeeded; one whose stop or close fails stays, and every scrape
\* in which its PID is inactive, and Stop, closes it again; a profiler that
\* is not in the table is not stopped or closed.
C30_ClosedAgainAtEveryScrape ==
    [][\A k \in Kinds :
          /\ Tables[k] \ Tables'[k] \subseteq perfClosed'[k]
          /\ (UpdateStep \/ StopStep) =>
                /\ CloseFailed(scrapeFaults', k) \subseteq Tables'[k]
                /\ CloseAttempts(perfClosed', scrapeFaults', k)
                      \subseteq Tables[k]
          /\ UpdateStep =>
                Tables[k] \ ReportedActivePIDs(scrapeFaults')
                   \subseteq CloseAttempts(perfClosed', scrapeFaults', k)
          /\ StopStep =>
                Tables[k]
                   \subseteq CloseAttempts(perfClosed', scrapeFaults', k)]_vars

\* C30 amended: the same, where a scrape or Stop closes the profilers again
\* only if its close security context works and, for a scrape, filterProcs
\* did not fail; otherwise the step closes nothing and the profilers stay.
C30_ClosedAgainWhenCloseRuns ==
    [][\A k \in Kinds :
          /\ Tables[k] \ Tables'[k] \subseteq perfClosed'[k]
          /\ (UpdateStep \/ StopStep) =>
                /\ CloseFailed(scrapeFaults', k) \subseteq Tables'[k]
                /\ CloseAttempts(perfClosed', scrapeFaults', k)
                      \subseteq Tables[k]
                /\ LET ran == /\ <<"ctx_close", "", 0>> \notin scrapeFaults'
                              /\ <<"ctx_filter", "", 0>> \notin scrapeFaults'
                       inactive ==
                           IF StopStep THEN Tables[k]
                           ELSE Tables[k]
                                   \ ReportedActivePIDs(scrapeFaults')
                   IN  IF ran
                       THEN inactive \subseteq
                               CloseAttempts(perfClosed', scrapeFaults', k)
                       ELSE /\ CloseAttempts(perfClosed', scrapeFaults', k)
                                  = {}
                            /\ Tables[k] \subseteq Tables'[k]]_vars

\* C30 witness: the close of the hardware profiler of the exited PID 100
\* failed in this scrape and the profiler is still in the table.
C30_Witness ==
    /\ perfPc = "scraping"
    /\ <<"close", "hw", 100>> \in scrapeFaults
    /\ procStatus[100] = "exited"
    /\ 100 \in perfHwProfilers
    /\ 100 \notin perfClosed.hw

\* Update returns.
ReturnStep == perfPc = "scraping" /\ perfPc' = "ready"



\* C27: after a scrape the snapshot tables of every enabled kind hold an
\* entry for every PID of every scraped cgroup, and the update of one
\* cgroup never evicts the entry of a PID of another scraped cgroup.
C27_SnapshotOfEveryActivePID ==
    [][/\ ReturnStep
          => /\ opts.hw
                   => /\ ProcsOf(scrapeCgroups)
                            \subseteq DOMAIN lastRawHwCounters
                      /\ ProcsOf(scrapeCgroups)
                            \subseteq DOMAIN lastScaledHwCounters
             /\ opts.cache
                   => /\ ProcsOf(scrapeCgroups)
                            \subseteq DOMAIN lastRawCacheCounters
                      /\ ProcsOf(scrapeCgroups)
                            \subseteq DOMAIN lastScaledCacheCounters
       /\ \A u \in DOMAIN gor :
             /\ StepOf(u, "hw")
                   => DOMAIN lastScaledHwCounters \cap ProcsOf(scrapeCgroups)
                         \subseteq DOMAIN lastScaledHwCounters'
             /\ StepOf(u, "cache")
                   => DOMAIN lastScaledCacheCounters
                            \cap ProcsOf(scrapeCgroups)
                         \subseteq DOMAIN lastScaledCacheCounters']_vars

\* r is a whole number nearest to n / d.

NearestWhole(r, n, d) ==
    LET diff == IF r * d >= n THEN r * d - n ELSE n - r * d
    IN  2 * diff <= d

\* The formula of scaleCounter for counters that do not decrease, over
\* every pair of reads with fields up to MaxRead.
ScaleCounterFormula ==
    \A last \in ProfileValuesUpTo(MaxRead, MaxRead) :
    \A cur \in {n \in ProfileValuesUpTo(MaxRead, MaxRead) : Later(last, n)} :
        LET dv == cur.Value - last.Value
            dte == cur.TimeEnabled - last.TimeEnabled
            dtr == cur.TimeRunning - last.TimeRunning
        IN  /\ dtr > 0 => NearestWhole(scaleCounter(last, cur), dv * dte, dtr)
            /\ dtr = 0 => scaleCounter(last, cur) = dv
            /\ dtr = dte => scaleCounter(last, cur) = dv

\* C4 (as stated): scaleCounter follows its formula, and the scaled counter
\* kept for a PID is the running sum of the contributions scaleCounter
\* returned for its reads.
C4_RunningSum ==
    /\ ScaleCounterFormula
    /\ \A p \in DOMAIN lastScaledHwCounters :
          lastScaledHwCounters[p] = contribSum[p]

\* No process of another compute unit than u has run so far.
OnlyUnit(u) == \A p \in PIDs \ PidsOf(u) : procStatus[p] = "none"

\* C5 (as stated): the hardware sample sent for a uuid is the sum of the
\* contributions of every PID observed in the compute unit so far, those
\* that have exited included.  Stated for the samples of a compute unit
\* that is the only one on the node.
C5_SumOverObserved ==
    \A u \in CgroupUUIDs :
        (opts.hw /\ OnlyUnit(u) /\ perfCh[u].hw > 0)
            => perfCh[u].hw = SumOver(contribSum, PidsOf(u))

\* C4 on a node with one compute unit: there the scaled counter of a PID
\* is the running sum of its contributions.
RunningSumOneUnit ==
    \A u \in CgroupUUIDs : OnlyUnit(u) =>
        \A p \in DOMAIN lastScaledHwCounters :
            lastScaledHwCounters[p] = contribSum[p]

\* ------------------------------------------------------------------------
\* cgroupProcFilterer on its own
\* ------------------------------------------------------------------------
\* Most processes of a cgroup passed to cgroupProcFilterer.
MaxProcs == 2

FilterCgroupIDs == {"c1", "c2"}

\* The cgroups passed to cgroupProcFilterer: each holds at most MaxProcs
\* processes, and no process is in two cgroups.
FilterCgroups ==
    LET procSets == {P \in SUBSET FilterPIDs : Cardinality(P) <= MaxProcs}
        all == UNION {[D -> procSets] : D \in SUBSET FilterCgroupIDs}
    IN  {c \in all : \A u, v \in DOMAIN c : u # v => c[u] \cap c[v] = {}}

\* The values of --collector.perf.env-var.
TargetEnvVarsChoices ==
    SUBSET {<<"J">>, <<"J", "I", "D">>, <<"J", "=">>, <<"X">>}

NilFilter == [isNil |-> TRUE, matches |-> {}]

\* No call of filterPerfProcs is pending.
FilterIdle ==
    /\ filterPc = "done"
    /\ filterIn = [cgroups |-> <<>>, targetEnvVars |-> {},
                   procFilter |-> NilFilter]
    /\ filterOut = [cgroups |-> <<>>, opened |-> {}]

\* A call of filterPerfProcs is about to run.
FilterInit ==
    /\ filterPc = "call"
    /\ filterIn \in [cgroups : FilterCgroups,
                      targetEnvVars : TargetEnvVarsChoices,
                      procFilter : {NilFilter, ignoreProc}]
    /\ filterOut = [cgroups |-> <<>>, opened |-> {}]

\* filterPerfProcs, and newProfilers on the cgroups it returns: the first
\* steps of Update, with empty profiler tables.
filterPerfProcs ==
    /\ filterPc = "call"
    /\ filterPc' = "done"
    /\ LET cgroups == cgroupProcFilterer(filterIn.cgroups,
                                         filterIn.targetEnvVars,
                                         filterIn.procFilter)
       IN  filterOut' = [cgroups |-> cgroups,
                         opened |-> openProfilers({}, TRUE, cgroups, {})]
    /\ UNCHANGED <<filterIn, notFilter>>

FilterNext == filterPerfProcs

\* The key of a KEY=VALUE entry of an environ.
EnvKey(env) ==
    LET idx == {i \in 1..Len(env) : env[i] = "="}
    IN  IF idx = {} THEN env
        ELSE SubSeq(env, 1, (CHOOSE i \in idx : \A j \in idx : i <= j) - 1)

\* The process has an environment variable whose key starts with a target.
HasTargetKey(pid, targets) ==
    \E env \in Procs[pid].environ : \E t \in targets :
        HasPrefix(EnvKey(env), t)

\* C11 (as stated): with targets set, a cgroup is kept if and only if one
\* of its processes has an environment variable whose key starts with a
\* target, and no profiler is opened for a cgroup that is not kept.
C11_KeptIffTargetKey ==
    (filterPc = "done" /\ filterIn.targetEnvVars # {}) =>
        \A u \in DOMAIN filterIn.cgroups :
            /\ u \in DOMAIN filterOut.cgroups
                  <=> \E p \in filterIn.cgroups[u] :
                         HasTargetKey(p, filterIn.targetEnvVars)
            /\ u \notin DOMAIN filterOut.cgroups
                  => filterIn.cgroups[u] \cap filterOut.opened = {}

\* The process is one the filter looks at: its environ can be read and,
\* when an ignore predicate is set, its command line can be read, is not
\* empty and is not matched by the predicate.
Inspected(pid, filter) ==
    /\ ~Procs[pid].envErr
    /\ filter.isNil
          \/ /\ ~Procs[pid].cmdErr
             /\ Procs[pid].cmdLine # ""
             /\ Procs[pid].cmdLine \notin filter.matches

\* An entry (KEY=VALUE) of the environ of the process starts with a target.
HasTargetEntry(pid, targets) ==
    \E env \in Procs[pid].environ : \E t \in targets : HasPrefix(env, t)

\* C11 amended: with targets set, a cgroup is kept if and only if one of
\* its inspected processes has an environ entry that starts with a target;
\* a kept cgroup keeps exactly those processes, profilers are opened for
\* them only, and none for a cgroup that is not kept.
C11_KeptIffInspectedEntry ==
    (filterPc = "done" /\ filterIn.targetEnvVars # {}) =>
        \A u \in DOMAIN filterIn.cgroups :
            LET passing == {p \in filterIn.cgroups[u] :
                              /\ Inspected(p, filterIn.procFilter)
                              /\ HasTargetEntry(p, filterIn.targetEnvVars)}
            IN  /\ u \in DOMAIN filterOut.cgroups <=> passing # {}
                /\ u \in DOMAIN filterOut.cgroups
                      => filterOut.cgroups[u] = passing
                /\ filterIn.cgroups[u] \cap filterOut.opened = passing

\* The processes of the cgroups whose command line matches the ignore
\* predicate.
IgnoredProcs(cgroups, filter) ==
    {p \in ProcsOf(cgroups) :
        /\ ~filter.isNil
        /\ ~Procs[p].cmdErr
        /\ Procs[p].cmdLine \in filter.matches}

\* C23: with targets and an ignore predicate set, a process whose command
\* line matches the predicate is never kept and never profiled, whatever
\* its environ holds, and the cgroups returned are those returned for the
\* same cgroups without these processes.
C23_IgnoredNeverInspected ==
    (filterPc = "done" /\ filterIn.targetEnvVars # {}) =>
        LET ignored == IgnoredProcs(filterIn.cgroups, filterIn.procFilter)
            others == [u \in DOMAIN filterIn.cgroups
                          |-> filterIn.cgroups[u] \ ignored]
        IN  /\ ignored \cap ProcsOf(filterOut.cgroups) = {}
            /\ ignored \cap filterOut.opened = {}
            /\ filterOut.cgroups
                  = cgroupProcFilterer(others, filterIn.targetEnvVars,
                                       filterIn.procFilter)

\* C23 witness: 201 runs the ignored command with a target variable in its
\* environ, next to 205 which has none; their cgroup is dropped.
C23_Witness ==
    /\ filterPc = "done"
    /\ filterIn.targetEnvVars = {<<"J">>}
    /\ filterIn.procFilter = ignoreProc
    /\ filterIn.cgroups = [u \in {"c1"} |-> {201, 205}]
    /\ HasTargetEntry(201, filterIn.targetEnvVars)
    /\ filterOut.cgroups = <<>>
    /\ filterOut.opened = {}

\* C11 witness: of two cgroups the one whose only process with a target
\* variable is ignored is dropped, the other is kept and profiled.
C11_Witness ==
    /\ filterPc = "done"
    /\ filterIn.targetEnvVars = {<<"J", "I", "D">>}
    /\ filterIn.procFilter = ignoreProc
    /\ filterIn.cgroups = ("c1" :> {201, 205}) @@ ("c2" :> {200})
    /\ DOMAIN filterOut.cgroups = {"c2"}
    /\ filterOut.opened = {200}

\* ------------------------------------------------------------------------
\* SanitizeMetricName
\* ------------------------------------------------------------------------
\* Longest metric name.
MaxLen == 5

\* The characters of a metric name: a letter, a digit, the underscore, and
\* two characters outside [0-9A-Za-z_].
MetricChars == {"a", "1", "_", "-", ":"}

\* The character class [^0-9A-Za-z_] of metricNameRegex.
IsInvalid(c) == c \notin {"a", "1", "_"}

\* The index after the longest run of underscores / of invalid characters
\* that starts at index i (greedy _* and [^0-9A-Za-z_]+).
RECURSIVE SkipUnderscores(_, _)
SkipUnderscores(str, i) ==
    IF i <= Len(str) /\ str[i] = "_" THEN SkipUnderscores(str, i + 1) ELSE i

RECURSIVE SkipInvalid(_, _)
SkipInvalid(str, i) ==
    IF i <= Len(str) /\ IsInvalid(str[i]) THEN SkipInvalid(str, i + 1) ELSE i

\* metricNameRegex = `_*[^0-9A-Za-z_]+_*`: the index after its match that
\* starts at index i, 0 when it does not match there.
metricNameRegex(str, i) ==
    LET j == SkipUnderscores(str, i)
    IN  IF j <= Len(str) /\ IsInvalid(str[j])
        THEN SkipUnderscores(str, SkipInvalid(str, j))
        ELSE 0

\* Regexp.ReplaceAllString(str, "_") from index i on: the leftmost match is
\* replaced, and the search goes on after it.
RECURSIVE ReplaceAllString(_, _)
ReplaceAllString(str, i) ==
    IF i > Len(str) THEN <<>>
    ELSE LET k == metricNameRegex(str, i)
         IN  IF k > 0 THEN <<"_">> \o ReplaceAllString(str, k)
             ELSE <<str[i]>> \o ReplaceAllString(str, i + 1)

\* The first match only is replaced.
RECURSIVE ReplaceFirstString(_, _)
ReplaceFirstString(str, i) ==
    IF i > Len(str) THEN <<>>
    ELSE LET k == metricNameRegex(str, i)
         IN  IF k > 0 THEN <<"_">> \o SubSeq(str, k, Len(str))
             ELSE <<str[i]>> \o ReplaceFirstString(str, i + 1)

SanitizeFirstMatch(name) == ReplaceFirstString(name, 1)

SanitizeMetricName(name) == ReplaceAllString(name, 1)

MetricNames == UNION {[1..n -> MetricChars] : n \in 0..MaxLen}

\* No call of SanitizeMetricName is made.
SanIdle ==
    /\ sanPc = "twice"
    /\ metricName = <<>>
    /\ sanitized = <<>>
    /\ resanitized = <<>>

SanInit ==
    /\ sanPc = "none"
    /\ metricName \in MetricNames
    /\ sanitized = <<>>
    /\ resanitized = <<>>

\* SanitizeMetricName(metricName).
Sanitize ==
    /\ sanPc = "none"
    /\ sanPc' = "once"
    /\ sanitized' = SanitizeMetricName(metricName)
    /\ UNCHANGED <<metricName, resanitized, notSan>>

\* SanitizeMetricName of the result.
SanitizeAgain ==
    /\ sanPc = "once"
    /\ sanPc' = "twice"
    /\ resanitized' = SanitizeMetricName(sanitized)
    /\ UNCHANGED <<metricName, sanitized, notSan>>

SanNext == Sanitize \/ SanitizeAgain

\* C12: SanitizeMetricName is idempotent, and its result holds only
\* characters of [A-Za-z0-9_].
C12_SanitizeIdempotent ==
    /\ sanPc \in {"once", "twice"}
          => \A i \in 1..Len(sanitized) : sanitized[i] \in {"a", "1", "_"}
    /\ sanPc = "twice" => resanitized = sanitized

\* C12 witness: a name with two matches of the regex, the first of them
\* followed by an underscore, sanitized twice.
C12_Witness ==
    /\ sanPc = "twice"
    /\ metricName = <<"a", "-", "_", ":", "1">>
    /\ sanitized = <<"a", "_", "_", "1">>
    /\ resanitized = sanitized

\* ------------------------------------------------------------------------
\* The units upsert statement (units.sql)
\* ------------------------------------------------------------------------
\* The number of executions of the statement, and the largest metric value
\* and num_updates of one execution.
MaxUpserts == 3
MaxMetric == 1

\* The values bound to the named parameters of the statement.  name stands
\* for the columns the DO UPDATE clause does not set (name, project,
\* username, created_at, ...), state for those it replaces (ended_at,
\* ended_at_ts, elapsed, state, tags), total for the total_* metric maps.
UnitParams ==
    [cluster_id : {"c1", "c2"}, uuid : {"u1", "u2"}, started_at : {1, 2},
     name : {"a", "b"}, state : {"running", "done"}, total : 0..MaxMetric,
     num_updates : 1..MaxMetric]

\* The conflict target of the statement: ON CONFLICT(cluster_id, uuid,
\* started_at).
ConflictKey(row) == <<row.cluster_id, row.uuid, row.started_at>>

\* The SQL function add_metric_map, on a map with one key.
add_metric_map(existing, new) == existing + new

\* DO UPDATE SET: the row after the update with the parameters.
DoUpdate(row, params) ==
    [row EXCEPT !.state = params.state,
                !.total = add_metric_map(row.total, params.total),
                !.num_updates = row.num_updates + params.num_updates]

\* The statement without its ON CONFLICT clause, on a table without the
\* unique constraint: a plain INSERT.
InsertOnly(rows, params) == Append(rows, params)

\* The statement executed on the table: the row with the conflict key of
\* the parameters is updated, and a new row is inserted when there is none.
\* The table has a unique constraint on the conflict target.
Upsert(rows, params) ==
    IF \E i \in DOMAIN rows : ConflictKey(rows[i]) = ConflictKey(params)
    THEN [i \in DOMAIN rows |->
             IF ConflictKey(rows[i]) = ConflictKey(params)
             THEN DoUpdate(rows[i], params) ELSE rows[i]]
    ELSE Append(rows, params)

NoParams ==
    [cluster_id |-> "", uuid |-> "", started_at |-> 0, name |-> "",
     state |-> "", total |-> 0, num_updates |-> 0]

\* The table is empty and the statement is never executed.
UpsertIdle ==
    /\ unitsRows = <<>>
    /\ upsertParams = NoParams
    /\ upsertCount = MaxUpserts

UpsertInit ==
    /\ unitsRows = <<>>
    /\ upsertParams = NoParams
    /\ upsertCount = 0

\* One execution of the statement.
ExecUpsert ==
    /\ upsertCount < MaxUpserts
    /\ upsertCount' = upsertCount + 1
    /\ \E params \in UnitParams :
          /\ upsertParams' = params
          /\ unitsRows' = Upsert(unitsRows, params)
    /\ UNCHANGED notUpsert

UpsertNext == ExecUpsert

\* The rows of the table with the conflict key of the parameters.
RowsOfKey(rows, params) ==
    {i \in DOMAIN rows : ConflictKey(rows[i]) = ConflictKey(params)}

MaxRefreshes == 7

\* What the status endpoint of the backend may answer: nothing (the backend
\* is unreachable), a body that is not a status response, or a status
\* response whose storageRetention is a list of components joined by
\* " or ".
StatusAnswers ==
    {[kind |-> "unreachable", storageRetention |-> <<>>],
     [kind |-> "dummy", storageRetention |-> <<>>],
     [kind |-> "success", storageRetention |-> <<"30d">>],
     [kind |-> "success", storageRetention |-> <<"30d", "10GiB">>],
     [kind |-> "success", storageRetention |-> <<"15d">>],
     [kind |-> "success", storageRetention |-> <<"1y", "10GiB">>],
     [kind |-> "success", storageRetention |-> <<"2h", "512MB">>],
     [kind |-> "success", storageRetention |-> <<"10GiB">>]}

\* The hours of a duration string; 0 for a string that is no duration.
ParseDuration(str) ==
    CASE str = "30d" -> 30 * 24
      [] str = "15d" -> 15 * 24
      [] str = "1y" -> 365 * 24
      [] str = "2h" -> 2
      [] OTHER -> 0

\* The duration component of an answer: the refresh succeeds when the
\* answer is a status response whose first component is a duration.
ParsedRetention(answer) ==
    IF answer.kind = "success" /\ answer.storageRetention # <<>>
    THEN ParseDuration(Head(answer.storageRetention))
    ELSE 0

\* The cache after a refresh that clears it on failure.
ClearedOnFailure(cached, answer) == ParsedRetention(answer)

\* The cache after a refresh: a parsed duration replaces the cached value,
\* a failed refresh keeps it.
RefreshedRetention(cached, answer) ==
    IF ParsedRetention(answer) > 0 THEN ParsedRetention(answer) ELSE cached

NoAnswer == [kind |-> "none", storageRetention |-> <<>>]

\* No refresh is made.
BackendIdle ==
    /\ retentionPeriod = 0
    /\ tsdbStatus = NoAnswer
    /\ lastParsed = 0
    /\ refreshes = MaxRefreshes

\* The backend before New fetches the retention for the first time.
BackendInit ==
    /\ retentionPeriod = 0
    /\ tsdbStatus = NoAnswer
    /\ lastParsed = 0
    /\ refreshes = 0

\* One retention refresh (in New, and in every RetentionPeriod call).
RefreshRetention ==
    /\ refreshes < MaxRefreshes
    /\ refreshes' = refreshes + 1
    /\ \E answer \in StatusAnswers :
          /\ tsdbStatus' = answer
          /\ retentionPeriod' = RefreshedRetention(retentionPeriod, answer)
          /\ lastParsed' = IF ParsedRetention(answer) > 0
                           THEN ParsedRetention(answer) ELSE lastParsed
    /\ UNCHANGED <<ipmiVars, httpVars, perfVars, filterVars, sanVars,
                   upsertVars, extraVars>>

BackendNext == RefreshRetention

\* C17: RetentionPeriod() is the duration parsed by the most recent
\* successful refresh (720 hours for 30d and for `30d or 10GiB`), a failed
\* refresh does not change it, and it is 0 only while no refresh has
\* succeeded.
C17_RetentionKeptAcrossFailures ==
    /\ [](retentionPeriod = lastParsed)
    /\ [][/\ tsdbStatus'.kind # "success" => retentionPeriod' = retentionPeriod
          /\ (tsdbStatus'.kind = "success"
                 /\ Head(tsdbStatus'.storageRetention) = "30d")
                => retentionPeriod' = 720
          /\ retentionPeriod # 0 => retentionPeriod' # 0]_vars

\* C17 witness: the backend answered `30d or 10GiB`, then became
\* unreachable, and the cache still holds 720 hours.
C17_Witness ==
    /\ refreshes >= 2
    /\ tsdbStatus.kind = "unreachable"
    /\ lastParsed = 720
    /\ retentionPeriod = 720

\* ------------------------------------------------------------------------
\* Tasks that call one perf collector at the same time
\* ------------------------------------------------------------------------
\* Two scrapes and the shutdown of the exporter.
Scrapers == {"scrape1", "scrape2"}
ConcTasks == Scrapers \cup {"stop"}

\* The processes the cgroups of a scrape may hold.
ConcPIDs == {100, 101}

\* The cgroups argument of an Update whose cgroups hold the processes P.
CgroupsOf(P) == IF P = {} THEN <<>> ELSE [u \in {"u1"} |-> P]

\* No task uses the collector.
LockIdle ==
    /\ taskPc = [t \in ConcTasks |-> "stopped"]
    /\ taskPIDs = [t \in ConcTasks |-> {}]
    /\ sharedProfilers = {}

\* A collector that no task has called yet.
LockInit ==
    /\ taskPc = [t \in ConcTasks |-> "idle"]
    /\ taskPIDs = [t \in ConcTasks |-> {}]
    /\ sharedProfilers = {}

\* A scrape calls Update, which calls newProfilers: nothing is acquired
\* first.
TaskUpdate(t) ==
    /\ t \in Scrapers
    /\ taskPc[t] = "idle"
    /\ \E P \in SUBSET ConcPIDs : taskPIDs' = [taskPIDs EXCEPT ![t] = P]
    /\ taskPc' = [taskPc EXCEPT ![t] = "newProfilers"]
    /\ UNCHANGED <<sharedProfilers, notLock>>

\* newProfilers returns: openProfilers has added the entries to the table.
TaskNewProfilers(t) ==
    /\ taskPc[t] = "newProfilers"
    /\ sharedProfilers' =
           openProfilers(sharedProfilers, TRUE, CgroupsOf(taskPIDs[t]), {})
    /\ taskPc' = [taskPc EXCEPT ![t] = "closeProfilers"]
    /\ UNCHANGED <<taskPIDs, notLock>>

\* closeProfilers returns: the entries of the PIDs that are not active are
\* deleted.  Update goes on to read the counters when it has cgroups, Stop
\* returns.
TaskCloseProfilers(t) ==
    /\ taskPc[t] = "closeProfilers"
    /\ sharedProfilers' =
           closeProfilers(sharedProfilers, TRUE, taskPIDs[t], {})
    /\ taskPc' = [taskPc EXCEPT ![t] =
                     IF t = "stop" THEN "stopped"
                     ELSE IF taskPIDs[t] = {} THEN "idle" ELSE "profile"]
    /\ UNCHANGED <<taskPIDs, notLock>>

\* The goroutines of Update have read the profilers of the table; Update
\* returns.
TaskProfile(t) ==
    /\ taskPc[t] = "profile"
    /\ taskPc' = [taskPc EXCEPT ![t] = "idle"]
    /\ UNCHANGED <<taskPIDs, sharedProfilers, notLock>>

\* Stop calls closeProfilers with no active PID.
TaskStop ==
    /\ taskPc["stop"] = "idle"
    /\ taskPc' = [taskPc EXCEPT !["stop"] = "closeProfilers"]
    /\ UNCHANGED <<taskPIDs, sharedProfilers, notLock>>

LockNext ==
    \/ \E t \in ConcTasks : TaskUpdate(t)
    \/ \E t \in ConcTasks : TaskNewProfilers(t)
    \/ \E t \in ConcTasks : TaskCloseProfilers(t)
    \/ \E t \in ConcTasks : TaskProfile(t)
    \/ TaskStop

\* The task is inside a call that inserts into or deletes from the table.
ModifiesTable(t) == taskPc[t] \in {"newProfilers", "closeProfilers"}

\* The task is inside a call that reads the table.
ReadsTable(t) == taskPc[t] = "profile"

\* C24: no open or close modifies a profiler table while another task reads
\* or modifies it, for every interleaving of two scrapes and Stop.
C24_TableNeverSharedWhileModified ==
    \A t1, t2 \in ConcTasks :
        (t1 # t2 /\ ModifiesTable(t1))
            => ~(ModifiesTable(t2) \/ ReadsTable(t2))

\* ------------------------------------------------------------------------
\* lookupCgroupRoots
\* ------------------------------------------------------------------------
\* Depth of the directory trees below rootDir.
MaxDepth == 2

\* The names of directory entries, in the lexical order WalkDir visits them.
Comps == <<"s", "u">>

\* The paths below rootDir, relative to it; <<>> stands for ".".
RelPaths == UNION {[1..n -> {"s", "u"}] : n \in 1..MaxDepth}

\* A directory tree: what is at each path.  An entry exists only in a
\* directory that can be read.
FileSystems ==
    {fsys \in [RelPaths -> {"absent", "file", "dir", "unreadable"}] :
        \A p \in RelPaths :
            (Len(p) > 1 /\ fsys[p] # "absent")
                => fsys[SubSeq(p, 1, Len(p) - 1)] = "dir"}

\* The choices of rootDir and of name.
RootDirs == {<<"r">>, <<"r", "/", "s">>}
MarkerNames == {<<"s">>, <<"u", "/", "s">>, <<"s", "/", "u">>}

\* filepath.Join(rootDir, rel): the path WalkDir passes to its function.
RECURSIVE JoinPath(_, _)
JoinPath(rootDir, rel) ==
    IF rel = <<>> THEN rootDir
    ELSE JoinPath(rootDir \o <<"/", Head(rel)>>, Tail(rel))

\* strings.Contains.
Contains(str, substr) ==
    \E i \in 0..(Len(str) - Len(substr)) :
        SubSeq(str, i + 1, i + Len(substr)) = substr

\* The entries of a directory, in lexical order.
DirEntries(fsys, rel) ==
    IF Len(rel) >= MaxDepth THEN <<>>
    ELSE SelectSeq([i \in 1..Len(Comps) |-> Append(rel, Comps[i])],
                   LAMBDA p : fsys[p] # "absent")

\* What is at a path; rootDir is a directory that can be read.
KindOf(fsys, rel) == IF rel = <<>> THEN "dir" ELSE fsys[rel]

\* The function of the walk with every matching directory added and none
\* skipped.
walkFnNoSkip(isDir, p, name) ==
    IF ~isDir THEN [add |-> FALSE, skipDir |-> FALSE]
    ELSE [add |-> Contains(p, name), skipDir |-> FALSE]

\* The function lookupCgroupRoots passes to WalkDir, for an entry without
\* error: a path that is no directory is ignored, a directory whose path
\* contains name is added and skipped.
walkFn(isDir, p, name) ==
    IF ~isDir THEN [add |-> FALSE, skipDir |-> FALSE]
    ELSE IF Contains(p, name) THEN [add |-> TRUE, skipDir |-> TRUE]
    ELSE [add |-> FALSE, skipDir |-> FALSE]

\* filepath.WalkDir from rel on: the function is called on the entry; a
\* directory that is not skipped is read, which ends the walk with an error
\* when it cannot be read, and its entries are walked in lexical order.
RECURSIVE WalkDir(_, _, _, _, _)
WalkDir(fsys, rootDir, name, todo, st) ==
    IF todo = <<>> \/ st.err THEN st
    ELSE LET rel == Head(todo)
             kind == KindOf(fsys, rel)
             fn == walkFn(kind # "file", JoinPath(rootDir, rel), name)
             found == IF fn.add THEN Append(st.found, rel) ELSE st.found
             visited == st.visited \cup {rel}
         IN  IF kind = "file" \/ fn.skipDir
             THEN WalkDir(fsys, rootDir, name, Tail(todo),
                          [st EXCEPT !.found = found, !.visited = visited])
             ELSE IF kind = "unreadable"
             THEN [st EXCEPT !.err = TRUE, !.visited = visited]
             ELSE WalkDir(fsys, rootDir, name,
                          DirEntries(fsys, rel) \o Tail(todo),
                          [st EXCEPT !.found = found, !.visited = visited])

\* lookupCgroupRoots: the relative paths found, or an error and no path.
\* visited is the set of paths the walk called its function on.
lookupCgroupRoots(fsys, rootDir, name) ==
    LET st == WalkDir(fsys, rootDir, name, << <<>> >>,
                      [found |-> <<>>, visited |-> {}, err |-> FALSE])
    IN  [roots |-> IF st.err THEN <<>> ELSE st.found,
         visited |-> st.visited,
         err |-> st.err]

NoRoots == [roots |-> <<>>, visited |-> {}, err |-> FALSE]

\* No call of lookupCgroupRoots is made.
RootsIdle ==
    /\ rootsPc = "done"
    /\ rootsIn = [fsys |-> [p \in RelPaths |-> "absent"],
                  rootDir |-> <<"r">>, name |-> <<"s">>]
    /\ rootsOut = NoRoots

\* A call of lookupCgroupRoots is about to run.
RootsInit ==
    /\ rootsPc = "call"
    /\ rootsIn \in [fsys : FileSystems, rootDir : RootDirs,
                    name : MarkerNames]
    /\ rootsOut = NoRoots

LookupCgroupRoots ==
    /\ rootsPc = "call"
    /\ rootsPc' = "done"
    /\ rootsOut' = lookupCgroupRoots(rootsIn.fsys, rootsIn.rootDir,
                                     rootsIn.name)
    /\ UNCHANGED <<rootsIn, notRoots>>

RootsNext == LookupCgroupRoots

\* The path and its proper ancestors, relative to rootDir.
Ancestors(rel) == {SubSeq(rel, 1, n) : n \in 0..(Len(rel) - 1)}

\* The path of the directory contains name.
Matches(rel) == Contains(JoinPath(rootsIn.rootDir, rel), rootsIn.name)

\* The directories whose path contains name and that have no ancestor
\* whose path contains it.
TopMatches ==
    {rel \in RelPaths \cup {<<>>} :
        /\ KindOf(rootsIn.fsys, rel) \in {"dir", "unreadable"}
        /\ Matches(rel)
        /\ \A a \in Ancestors(rel) : ~Matches(a)}

perfProfilerMap ==
    [hw |-> [CpuCycles |-> 2, CpuInstr |-> 4],
     sw |-> [PageFault |-> 2, ContextSwitch |-> 4],
     cache |-> [L1DataReadHit |-> 2, LLReadMiss |-> 4]]

KnownNames(kind) == DOMAIN perfProfilerMap[kind]

\* perf.AllHardwareProfilers, perf.AllSoftwareProfilers and
\* perf.AllCacheProfilers: the type that stands for every profiler.
AllProfilers == 0

\* The names that may be given on the command line for a kind: its known
\* names, a name of another kind and a misspelt one.
NameChoices(kind) == KnownNames(kind) \cup {"RefCpuCycle", "Typo"}

\* a | b for a profiler type a and the type b of one name.
BitOr(a, b) == IF (a \div b) % 2 = 1 THEN a ELSE a + b

\* The loop over the configured names: the type of every name that is in
\* the map is or-ed into the types.
RECURSIVE OrKnown(_, _, _)
OrKnown(types, kind, names) ==
    IF names = {} THEN types
    ELSE LET n == CHOOSE x \in names : TRUE
         IN  OrKnown(IF n \in KnownNames(kind)
                     THEN BitOr(types, perfProfilerMap[kind][n])
                     ELSE types,
                     kind, names \ {n})

\* The profiler types NewPerfCollector sets for one kind.
profilerTypes(kind, enabled, names) ==
    IF enabled /\ names # {} THEN OrKnown(AllProfilers, kind, names)
    ELSE AllProfilers

\* The profilers that are opened for a PID with these types: every profiler
\* for AllProfilers, else those whose bit is set.
CollectedProfilers(kind, types) ==
    IF types = AllProfilers THEN KnownNames(kind)
    ELSE {n \in KnownNames(kind) :
             (types \div perfProfilerMap[kind][n]) % 2 = 1}

\* NewPerfCollector is not called.
TypesIdle ==
    /\ typesPc = "done"
    /\ typesIn = [kind |-> "hw", enabled |-> FALSE, names |-> {}]
    /\ typesOut = AllProfilers

\* NewPerfCollector is about to be called with some command line.
TypesInit ==
    /\ typesPc = "call"
    /\ \E kind \in {"hw", "sw", "cache"} :
          typesIn \in [kind : {kind}, enabled : BOOLEAN,
                       names : SUBSET NameChoices(kind)]
    /\ typesOut = AllProfilers

\* NewPerfCollector: the part that configures the profiler types.
ConfigureProfilers ==
    /\ typesPc = "call"
    /\ typesPc' = "done"
    /\ typesOut' = profilerTypes(typesIn.kind, typesIn.enabled,
                                 typesIn.names)
    /\ UNCHANGED <<typesIn, notTypes>>

TypesNext == ConfigureProfilers

\* C26: when a non-empty list of names is configured for an enabled kind,
\* the profilers collected are exactly the configured names that are known.
C26_ExactlyConfiguredKnown ==
    (typesPc = "done" /\ typesIn.enabled /\ typesIn.names # {}) =>
        CollectedProfilers(typesIn.kind, typesOut)
            = typesIn.names \cap KnownNames(typesIn.kind)

\* That holds whenever one of the configured names is known.
ExactWhenOneKnown ==
    (/\ typesPc = "done" /\ typesIn.enabled
     /\ typesIn.names \cap KnownNames(typesIn.kind) # {}) =>
        CollectedProfilers(typesIn.kind, typesOut)
            = typesIn.names \cap KnownNames(typesIn.kind)

\* ------------------------------------------------------------------------
\* The goroutines of one Update and the snapshot maps
\* ------------------------------------------------------------------------

\* The cgroups of the scrape and their processes; Update starts one
\* goroutine for each and waits for all of them.
GoCgroups == [u1 |-> {100}, u2 |-> {102}]

Goroutines == DOMAIN GoCgroups

\* The snapshot maps: lastRawHwCounters and lastScaledHwCounters are "hw",
\* lastRawCacheCounters and lastScaledCacheCounters are "cache".
SnapshotKinds == {"hw", "cache"}

\* The statements of a goroutine in the order it executes them:
\* updateHardwareCounters creates the entries of its PIDs, aggregates, then
\* evicts; updateCacheCounters creates, evicts, then aggregates.
GoSteps == <<"hwEntries", "hwAgg", "hwEvict",
             "cacheEntries", "cacheEvict", "cacheAgg", "done">>

GoStepAfter(pc) ==
    LET i == CHOOSE j \in 1..(Len(GoSteps) - 1) : GoSteps[j] = pc
    IN  GoSteps[i + 1]

\* The map a statement works on.
MapOf(pc) ==
    IF pc \in {"hwEntries", "hwAgg", "hwEvict"} THEN "hw"
    ELSE IF pc \in {"cacheEntries", "cacheEvict", "cacheAgg"} THEN "cache"
    ELSE "none"

RaceIdle ==
    /\ goPc = [u \in Goroutines |-> "done"]
    /\ lastCounters = [k \in SnapshotKinds |-> {}]

\* Update has started the goroutines; the maps hold what an earlier scrape
\* left in them.
RaceInit ==
    /\ goPc = [u \in Goroutines |-> "hwEntries"]
    /\ lastCounters \in [SnapshotKinds -> SUBSET {100, 102}]

NoPanic == \A u \in Goroutines : goPc[u] # "panic"

\* The loop over procs: an entry is made for every PID that has none.
CreateEntries(u) ==
    /\ NoPanic
    /\ goPc[u] \in {"hwEntries", "cacheEntries"}
    /\ lastCounters' = [lastCounters EXCEPT ![MapOf(goPc[u])] =
                            @ \cup GoCgroups[u]]
    /\ goPc' = [goPc EXCEPT ![u] = GoStepAfter(@)]
    /\ UNCHANGED notRace

\* agg*Counters: the counters of every PID of the cgroup are written into
\* the entry of the PID; the assignment into an entry that is not in the
\* map is an assignment into a nil map, which panics.
Aggregate(u) ==
    /\ NoPanic
    /\ goPc[u] \in {"hwAgg", "cacheAgg"}
    /\ goPc' = [goPc EXCEPT ![u] =
                    IF GoCgroups[u] \subseteq lastCounters[MapOf(@)]
                    THEN GoStepAfter(@) ELSE "panic"]
    /\ UNCHANGED <<lastCounters, notRace>>

\* The eviction loops: every entry of a PID that is not in the procs of
\* this goroutine is deleted.
Evict(u) ==
    /\ NoPanic
    /\ goPc[u] \in {"hwEvict", "cacheEvict"}
    /\ lastCounters' = [lastCounters EXCEPT ![MapOf(goPc[u])] =
                            @ \cap GoCgroups[u]]
    /\ goPc' = [goPc EXCEPT ![u] = GoStepAfter(@)]
    /\ UNCHANGED notRace

RaceNext == \E u \in Goroutines :
                CreateEntries(u) \/ Aggregate(u) \/ Evict(u)

\* The goroutine is executing a statement that inserts into or deletes
\* from the map of kind k.
ChangesMap(u, k) ==
    /\ MapOf(goPc[u]) = k
    /\ \/ goPc[u] \in {"hwEntries", "cacheEntries"}
          /\ ~(GoCgroups[u] \subseteq lastCounters[k])
       \/ goPc[u] \in {"hwEvict", "cacheEvict"}
          /\ ~(lastCounters[k] \subseteq GoCgroups[u])

\* C28: while one goroutine of a scrape inserts into or deletes from a
\* snapshot map, no other goroutine is executing a statement on that map,
\* and no goroutine writes into an entry that another goroutine deleted.
C28_SnapshotMapsNotShared ==
    /\ \A u, v \in Goroutines : \A k \in SnapshotKinds :
           (u # v /\ ChangesMap(u, k)) => MapOf(goPc[v]) # k
    /\ NoPanic

\* The second half of it on its own: a goroutine aggregates into the entry
\* that the eviction of another goroutine deleted.
NoWriteAfterEviction == NoPanic

\* ------------------------------------------------------------------------
\* Specifications
\* ------------------------------------------------------------------------



\* The subsystems that are checked on their own are at rest.
ExtraIdle == LockIdle /\ RootsIdle /\ TypesIdle /\ RaceIdle

OthersIdle == FilterIdle /\ SanIdle /\ UpsertIdle /\ BackendIdle /\ ExtraIdle

\* Every part but those of extraVars, at rest.
OldIdle == /\ IpmiInit /\ HttpInit /\ PerfInit
           /\ FilterIdle /\ SanIdle /\ UpsertIdle /\ BackendIdle
           /\ envFaults = FALSE /\ envTicks = FALSE

\* The collectors and the server before their constructors ran, on a node
\* whose system calls do not fail and whose perf counters do not move.
Init == IpmiInit /\ HttpInit /\ PerfInit /\ OthersIdle
           /\ envFaults = FALSE /\ envTicks = FALSE

\* The same on a node whose system calls may fail.
InitFaults == IpmiInit /\ HttpInit /\ PerfInit /\ OthersIdle
                 /\ envFaults = TRUE /\ envTicks = FALSE

\* The same on a node whose perf counters move.
InitTicks == IpmiInit /\ HttpInit /\ PerfInit /\ OthersIdle
                /\ envFaults = FALSE /\ envTicks = TRUE

SpecIPMI == Init /\ [][IpmiNext]_vars

SpecHTTP == Init /\ [][HttpNext]_vars

\* cgroupProcFilterer applied to every input.
InitFilter == IpmiInit /\ HttpInit /\ PerfInit /\ FilterInit /\ SanIdle
                 /\ UpsertIdle /\ BackendIdle /\ ExtraIdle
                 /\ envFaults = FALSE /\ envTicks = FALSE

SpecFilter == InitFilter /\ [][FilterNext]_vars

\* SanitizeMetricName applied to every metric name.
InitSan == IpmiInit /\ HttpInit /\ PerfInit /\ FilterIdle /\ SanInit
              /\ UpsertIdle /\ BackendIdle /\ ExtraIdle
              /\ envFaults = FALSE /\ envTicks = FALSE

SpecSanitize == InitSan /\ [][SanNext]_vars

\* The upsert statement executed on an empty units table.
InitUpsert == IpmiInit /\ HttpInit /\ PerfInit /\ FilterIdle /\ SanIdle
                 /\ UpsertInit /\ BackendIdle /\ ExtraIdle
                 /\ envFaults = FALSE /\ envTicks = FALSE

\* A backend whose retention is refreshed.
InitBackend == IpmiInit /\ HttpInit /\ PerfInit /\ FilterIdle /\ SanIdle
                  /\ UpsertIdle /\ BackendInit /\ ExtraIdle
                  /\ envFaults = FALSE /\ envTicks = FALSE

SpecBackend == InitBackend /\ [][BackendNext]_vars

\* Two scrapes and Stop on one perf collector.
InitLock == OldIdle /\ LockInit /\ RootsIdle /\ TypesIdle /\ RaceIdle

\* A call of lookupCgroupRoots on every directory tree.
InitRoots == OldIdle /\ LockIdle /\ RootsInit /\ TypesIdle /\ RaceIdle

\* NewPerfCollector on every list of profiler names.
InitTypes == OldIdle /\ LockIdle /\ RootsIdle /\ TypesInit /\ RaceIdle

\* The goroutines of one Update on two cgroups.
InitRace == OldIdle /\ LockIdle /\ RootsIdle /\ TypesIdle /\ RaceInit

SpecPerfRace == InitRace /\ [][RaceNext]_vars

SpecTypes == InitTypes /\ [][TypesNext]_vars


SpecRoots == InitRoots /\ [][RootsNext]_vars

SpecPerfLock == InitLock /\ [][LockNext]_vars

SpecUpsert == InitUpsert /\ [][UpsertNext]_vars

\* The perf collector where opening and closing profilers may fail.
SpecPerfTable == InitFaults /\ [][PerfNext]_vars

\* The perf collector where the counters of the profilers move.
SpecPerf == InitTicks /\ [][PerfNext]_vars

====
